---- MODULE Spec2Model ----
(***************************************************************************)
(* Model of the MegaCare Connect API handlers over the document store.     *)
(* The store is the only shared state; every handler is split at its       *)
(* store operations, so concurrent requests interleave between them.       *)
(* A store call can raise where the handler has an except branch for it;   *)
(* each such branch is an action of its own.  Field names are the ones the *)
(* handlers read and write in the store (displayName, lineId, ...).        *)
(***************************************************************************)
EXTENDS Naturals, FiniteSets, Sequences, TLC

VARIABLES customers, patient_list, devices, req, started, links,
          clinicians, subdocs, identities, call

\* The state the handlers outside /customers/me work on: the clinicians
\* collection, the documents of the dailyReports and reports subcollections,
\* the accounts of the identity service, and the requests to those handlers.
api == <<clinicians, subdocs, identities, call>>
\* The state only link-device and profile creation work on.
linking == <<patient_list, req, links>>

vars == <<customers, patient_list, devices, req, started, links, api>>

\* ---------------------------------------------------------------- bounds
\* Total number of requests the clients issue in one behaviour.
MaxRequests == 2

\* ------------------------------------------------------------ value sets
\* Authenticated callers (identity subject ids; the LINE id of a caller is
\* the same string, as in the test fixtures).
Uids == {"u1", "u2"}
\* Ids of the customers collection: the callers plus one record that was
\* provisioned out of band.
CustIds == Uids \cup {"c0"}
\* Ids of the patient_list lookup collection.
PatientIds == {"pt1"}
\* The serial number requests ask for.
Serials == {"s1"}
\* Client sessions: each issues its requests one after another, and the
\* sessions run concurrently.  Owner is the identity a session is signed in as.
Slots == {"a", "b"}
Owner == ("a" :> "u1") @@ ("b" :> "u2")

Absent == "absent"
Null == "null"

\* ------------------------------------------------------------ documents
\* A document's field map is a function from the field names it holds.
EmptyDoc == [k \in {} |-> Null]

Has(doc, k) == k \in DOMAIN doc

\* d[k] = v on a copy of d.
Put(doc, k, v) == [f \in DOMAIN doc \cup {k} |-> IF f = k THEN v ELSE doc[f]]

\* set(data, merge=True): fields of data replace, other fields stay.
MergeInto(old, data) ==
    [f \in DOMAIN old \cup DOMAIN data |-> IF f \in DOMAIN data THEN data[f] ELSE old[f]]

\* A stored document: exists flag and field map (as a DocumentSnapshot).
NoDoc == [exists |-> FALSE, data |-> EmptyDoc]
Stored(data) == [exists |-> TRUE, data |-> data]

\* A document reference: collection and id; NoRef is reference.parent.parent
\* of a document of a root-level collection (None).
Ref(coll, id) == [coll |-> coll, id |-> id]
NoRef == Ref("none", "none")

\* DocumentReference.get() for the two collections link-device reads.
StoreGet(ref) ==
    IF ref.coll = "customers" /\ ref.id \in CustIds THEN customers[ref.id]
    ELSE IF ref.coll = "patient_list" /\ ref.id \in PatientIds THEN patient_list[ref.id]
    ELSE NoDoc

\* ------------------------------------------------------- response schema
\* schemas.Customer.model_validate: displayName and createDate are required
\* (patientId is filled in from the document id by every handler).
CustomerValid(data) == Has(data, "displayName") /\ Has(data, "createDate")

\* ------------------------------------------------------ create profile
\* Payloads of POST /customers/me (fields that were set by the client).
Payloads(U) ==
    { ("displayName" :> "line") @@ ("lineId" :> U) @@ ("lineProfile" :> U),
      ("firstName" :> "F") @@ ("lastName" :> "L"),
      ("firstName" :> "F") }

\* customer_data after the displayName construction (lines 37-41).
WithDisplayName(p) ==
    IF ~Has(p, "displayName") /\ Has(p, "firstName") /\ Has(p, "lastName")
    THEN Put(p, "displayName", "F L")
    ELSE p

\* The document create_customer_profile writes (line 50).
CreateData(p) == Put(WithDisplayName(p), "setupDate", "now")

\* ------------------------------------------------------------- devices
\* The devices collection group is a sequence of device documents; the index
\* is the document id.  parent is reference.parent.parent.
Device(parent, sn, st, pid, cid) ==
    [parent |-> parent, serialNumber |-> sn, status |-> st,
     patientId |-> pid, customerId |-> cid, deviceName |-> "AirSense",
     deviceNumber |-> "987"]

\* Variant of the discovery query without the status filter.
DeviceQueryAnyStatus(devs, S) ==
    {i \in DOMAIN devs : devs[i].serialNumber = S}

\* collection_group("devices").where(serialNumber == S and status == "unlink")
DeviceQuery(devs, S) ==
    {i \in DOMAIN devs : devs[i].serialNumber = S /\ devs[i].status = "unlink"}

\* ------------------------------------------------------- link-device
\* Variant of data_to_write that starts from the caller's current document
\* and lays the parent snapshot over it (a field merge).
FinalDocumentMerged(snapshot, current, pid) ==
    LET base == MergeInto(current, snapshot)
        withProfile == IF Has(current, "lineProfile")
                       THEN Put(base, "lineProfile", current["lineProfile"]) ELSE base
        withLine == IF Has(current, "lineId")
                    THEN Put(withProfile, "lineId", current["lineId"]) ELSE withProfile
    IN Put(withLine, "patientId", IF pid = Absent THEN Null ELSE pid)

\* data_to_write of link_device_to_profile (lines 342-351).
FinalDocument(snapshot, current, pid) ==
    LET base == snapshot
        withProfile == IF Has(current, "lineProfile")
                       THEN Put(base, "lineProfile", current["lineProfile"]) ELSE base
        withLine == IF Has(current, "lineId")
                    THEN Put(withProfile, "lineId", current["lineId"]) ELSE withProfile
    IN Put(withLine, "patientId", IF pid = Absent THEN Null ELSE pid)

\* data_for_patients (lines 325-326).
DataForPatients(snapshot, U) == Put(snapshot, "customerId", U)

\* Variant of the added record that is filed next to the discovered device
\* (under the parent record) instead of under customers/U.
NewDeviceAtParent(U, S, dev) ==
    [parent |-> dev.parent, serialNumber |-> S, status |-> dev.status,
     patientId |-> Absent, customerId |-> Absent, deviceName |-> dev.deviceName,
     deviceNumber |-> "987"]

\* new_device_data_cleaned (lines 378-388), as a device of customers/U.
NewDevice(U, S, dev) ==
    [parent |-> Ref("customers", U), serialNumber |-> S, status |-> dev.status,
     patientId |-> Absent, customerId |-> Absent, deviceName |-> dev.deviceName,
     deviceNumber |-> "987"]

\* ----------------------------------------------------------- requests
Idle == [op |-> "none", pc |-> "idle", caller |-> "none", serial |-> "none",
         found |-> 0, dev |-> Device(NoRef, "none", "none", Absent, Absent),
         parent |-> NoRef, snapshot |-> EmptyDoc, current |-> EmptyDoc,
         data |-> EmptyDoc, status |-> 0, body |-> EmptyDoc,
         writes |-> {}, failed |-> {}, after |-> {}, resolved |-> FALSE,
         before |-> NoDoc]

\* A session sends its next request once the previous one was answered.
Free(r) == req[r].pc \in {"idle", "done"} /\ started < MaxRequests

Finish(r, st, body) == [req[r] EXCEPT !.pc = "done", !.status = st, !.body = body]

\* A request to one of the other handlers: the credential it carries, the
\* route and its parameters, how far the handler got, the response, and the
\* store operations the handler has issued so far (reads and writes, by
\* document path).  idp is what the identity provider answered about the
\* credential, ref and snap the document the handler resolved and what it
\* read there, raised the status of an HTTPException raised inside a try
\* block, seen what the request met in the store (kept for the properties).
NoCall == [op |-> "none", pc |-> "idle", cred |-> "none", who |-> "none",
           target |-> "none", limit |-> 0, status |-> 0, detail |-> "none",
           body |-> EmptyDoc, items |-> <<>>, reads |-> {}, writes |-> {},
           seen |-> {}, idp |-> "none", ref |-> NoRef, snap |-> NoDoc,
           raised |-> 0]

\* A document path: collection (or subcollection name) and document id.
Path(coll, id) == <<coll, id>>

\* Before any request to the other handlers: empty collections, no request.
NoTraffic ==
    /\ clinicians = [c \in Uids |-> NoDoc]
    /\ subdocs = {}
    /\ identities = {}
    /\ call = [r \in Slots |-> NoCall]

\* ---------------------------------------------------------------- Init
PreDoc == ("displayName" :> "John") @@ ("firstName" :> "John") @@ ("createDate" :> "t0")
PtDoc == ("displayName" :> "Jane") @@ ("firstName" :> "Jane") @@ ("createDate" :> "t0")
           @@ ("status" :> "Active")

\* Store contents before the first request: where the device with serial s1
\* lives, whether it carries a patientId, its status, and which of the
\* records it can resolve to exist.
Scenarios ==
    { [par |-> Ref("customers", "c0"), c0 |-> TRUE,  pid |-> Absent, pt |-> FALSE, st |-> "unlink"],
      [par |-> Ref("customers", "c0"), c0 |-> TRUE,  pid |-> "pt1",  pt |-> FALSE, st |-> "unlink"],
      [par |-> Ref("customers", "c0"), c0 |-> TRUE,  pid |-> "pt1",  pt |-> TRUE,  st |-> "unlink"],
      [par |-> Ref("customers", "c0"), c0 |-> FALSE, pid |-> Absent, pt |-> FALSE, st |-> "unlink"],
      [par |-> Ref("customers", "u2"), c0 |-> TRUE,  pid |-> Absent, pt |-> FALSE, st |-> "unlink"],
      [par |-> NoRef,                  c0 |-> TRUE,  pid |-> "pt1",  pt |-> TRUE,  st |-> "unlink"],
      [par |-> NoRef,                  c0 |-> TRUE,  pid |-> "pt1",  pt |-> FALSE, st |-> "unlink"],
      [par |-> NoRef,                  c0 |-> TRUE,  pid |-> Absent, pt |-> FALSE, st |-> "unlink"],
      [par |-> Ref("customers", "c0"), c0 |-> TRUE,  pid |-> Absent, pt |-> FALSE, st |-> "active"] }

\* The profile a caller holds after registering with a LINE identity.
LineProfileDoc(U) ==
    CreateData(("displayName" :> "line") @@ ("lineId" :> U) @@ ("lineProfile" :> U))

Init ==
    /\ \E sc \in Scenarios :
       \E f \in [Uids -> BOOLEAN] :
          /\ customers = [i \in CustIds |->
                            IF i = "c0" THEN (IF sc.c0 THEN Stored(PreDoc) ELSE NoDoc)
                            ELSE IF f[i] THEN Stored(LineProfileDoc(i)) ELSE NoDoc]
          /\ patient_list = [i \in PatientIds |-> IF sc.pt THEN Stored(PtDoc) ELSE NoDoc]
          /\ devices = <<Device(sc.par, "s1", sc.st, sc.pid, Absent)>>
    /\ req = [r \in Slots |-> Idle]
    /\ started = 0
    /\ links = {}
    /\ NoTraffic

\* ------------------------------------------- POST /customers/me/link-device
\* A finished 200 link, kept as history: who linked which serial through
\* which device document, what was committed, and whether every best-effort
\* step succeeded.
LinkRecord(q) ==
    [caller |-> q.caller, serial |-> q.serial, dev |-> q.found, doc |-> q.data,
     full |-> q.failed = {}, flipped |-> "flip" \in q.writes]

NewLink(r, U, S) ==
    [Idle EXCEPT !.op = "link", !.caller = U, !.serial = S,
                 !.after = {l \in links : l.serial = S},
                 !.before = customers[U]]

\* Lines 269-276: the discovery query raises.
LinkQueryFail(r, U, S) ==
    /\ Free(r)
    /\ req' = [req EXCEPT ![r] = [NewLink(r, U, S) EXCEPT !.pc = "done", !.status = 500,
                                                         !.failed = {"query"}]]
    /\ started' = started + 1
    /\ UNCHANGED <<api, customers, patient_list, devices, links>>

\* Lines 263-305: discovery query (limit 1) and parent resolution.
LinkQuery(r, U, S) ==
    /\ Free(r)
    /\ started' = started + 1
    /\ LET matches == DeviceQuery(devices, S)
           q == NewLink(r, U, S)
       IN IF matches = {}
          THEN req' = [req EXCEPT ![r] = [q EXCEPT !.pc = "done", !.status = 404]]
          ELSE \E i \in matches :
                 LET dev == devices[i]
                     q1 == [q EXCEPT !.found = i, !.dev = dev]
                 IN IF dev.parent # NoRef
                    THEN req' = [req EXCEPT ![r] =
                                   [q1 EXCEPT !.parent = dev.parent, !.pc = "getParent"]]
                    ELSE IF dev.patientId = Absent
                         THEN req' = [req EXCEPT ![r] =
                                        [q1 EXCEPT !.pc = "done", !.status = 404]]
                         ELSE req' = [req EXCEPT ![r] =
                                        [q1 EXCEPT !.parent = Ref("patient_list", dev.patientId),
                                                   !.pc = "getParent"]]
    /\ UNCHANGED <<api, customers, patient_list, devices, links>>

\* Variant of the parent read that goes on with an empty snapshot when the
\* parent record does not exist.
LinkGetParentLenient(r) ==
    /\ req[r].op = "link" /\ req[r].pc = "getParent"
    /\ LET doc == StoreGet(req[r].parent)
       IN req' = [req EXCEPT ![r].snapshot = doc.data,
                             ![r].resolved = TRUE,
                             ![r].pc = IF req[r].dev.patientId # Absent
                                       THEN "copy" ELSE "readUser"]
    /\ UNCHANGED <<api, customers, patient_list, devices, started, links>>

\* Lines 306-321: read the parent record and take its snapshot.
LinkGetParent(r) ==
    /\ req[r].op = "link" /\ req[r].pc = "getParent"
    /\ LET doc == StoreGet(req[r].parent)
       IN IF ~doc.exists
          THEN req' = [req EXCEPT ![r] = Finish(r, 404, EmptyDoc)]
          ELSE req' = [req EXCEPT ![r].snapshot = doc.data,
                                  ![r].resolved = TRUE,
                                  ![r].pc = IF req[r].dev.patientId # Absent
                                            THEN "copy" ELSE "readUser"]
    /\ UNCHANGED <<api, customers, patient_list, devices, started, links>>

\* Variant of the copy as a full write (set without merge=True).
LinkCopyOverwrite(r) ==
    /\ req[r].op = "link" /\ req[r].pc = "copy"
    /\ LET pid == req[r].dev.patientId
       IN patient_list' = [patient_list EXCEPT ![pid] =
              Stored(DataForPatients(req[r].snapshot, req[r].caller))]
    /\ req' = [req EXCEPT ![r].pc = "readUser", ![r].writes = @ \cup {"copy"}]
    /\ UNCHANGED <<api, customers, devices, started, links>>

\* Lines 322-328: merge copy into patient_list/<patientId>.
LinkCopy(r) ==
    /\ req[r].op = "link" /\ req[r].pc = "copy"
    /\ LET pid == req[r].dev.patientId
       IN patient_list' = [patient_list EXCEPT ![pid] =
              Stored(MergeInto(patient_list[pid].data,
                               DataForPatients(req[r].snapshot, req[r].caller)))]
    /\ req' = [req EXCEPT ![r].pc = "readUser", ![r].writes = @ \cup {"copy"}]
    /\ UNCHANGED <<api, customers, devices, started, links>>

\* Lines 329-331: the merge copy raises; logged and swallowed.
LinkCopyFail(r) ==
    /\ req[r].op = "link" /\ req[r].pc = "copy"
    /\ req' = [req EXCEPT ![r].pc = "readUser", ![r].failed = @ \cup {"copy"}]
    /\ UNCHANGED <<api, customers, patient_list, devices, started, links>>

\* Variant of the construction that keeps a patientId the parent snapshot
\* already holds (setdefault instead of assignment).
LinkReadUserKeepPatientId(r) ==
    /\ req[r].op = "link" /\ req[r].pc = "readUser"
    /\ LET doc == customers[req[r].caller]
           cur == IF doc.exists THEN doc.data ELSE EmptyDoc
           fin == FinalDocument(req[r].snapshot, cur, req[r].dev.patientId)
       IN req' = [req EXCEPT ![r].current = cur,
                             ![r].data = IF Has(req[r].snapshot, "patientId")
                                         THEN Put(fin, "patientId", req[r].snapshot["patientId"])
                                         ELSE fin,
                             ![r].pc = "commit"]
    /\ UNCHANGED <<api, customers, patient_list, devices, started, links>>

\* Lines 335-351: read customers/U and construct the final document.
LinkReadUser(r) ==
    /\ req[r].op = "link" /\ req[r].pc = "readUser"
    /\ LET doc == customers[req[r].caller]
           cur == IF doc.exists THEN doc.data ELSE EmptyDoc
       IN req' = [req EXCEPT ![r].current = cur,
                             ![r].data = FinalDocument(req[r].snapshot, cur, req[r].dev.patientId),
                             ![r].pc = "commit"]
    /\ UNCHANGED <<api, customers, patient_list, devices, started, links>>

\* Variant of the commit as a conditional write: it is refused with 409 once
\* the discovered device is no longer 'unlink'.
LinkCommitIfUnlinked(r) ==
    /\ req[r].op = "link" /\ req[r].pc = "commit"
    /\ IF devices[req[r].found].status = "unlink"
       THEN /\ customers' = [customers EXCEPT ![req[r].caller] = Stored(req[r].data)]
            /\ req' = [req EXCEPT ![r].pc = "flip", ![r].writes = @ \cup {"commit"}]
       ELSE /\ customers' = customers
            /\ req' = [req EXCEPT ![r] = Finish(r, 409, EmptyDoc)]
    /\ UNCHANGED <<api, patient_list, devices, started, links>>

\* Lines 353-356: full write of customers/U.
LinkCommit(r) ==
    /\ req[r].op = "link" /\ req[r].pc = "commit"
    /\ customers' = [customers EXCEPT ![req[r].caller] = Stored(req[r].data)]
    /\ req' = [req EXCEPT ![r].pc = "flip", ![r].writes = @ \cup {"commit"}]
    /\ UNCHANGED <<api, patient_list, devices, started, links>>

\* Variant of the commit failure that is logged and swallowed like the
\* best-effort steps.
LinkCommitFailSwallowed(r) ==
    /\ req[r].op = "link" /\ req[r].pc = "commit"
    /\ req' = [req EXCEPT ![r].pc = "flip", ![r].failed = @ \cup {"commit"}]
    /\ UNCHANGED <<api, customers, patient_list, devices, started, links>>

\* Lines 357-359: the commit raises; terminal.
LinkCommitFail(r) ==
    /\ req[r].op = "link" /\ req[r].pc = "commit"
    /\ req' = [req EXCEPT ![r] = [Finish(r, 500, EmptyDoc) EXCEPT !.failed = @ \cup {"commit"}]]
    /\ UNCHANGED <<api, customers, patient_list, devices, started, links>>

\* Variant of the device update that is issued before the commit.
LinkFlipEarly(r) ==
    /\ req[r].op = "link"
    /\ \/ req[r].pc = "commit" /\ "flip" \notin req[r].writes
       \/ req[r].pc = "flip"
    /\ devices' = [devices EXCEPT ![req[r].found].customerId = req[r].caller,
                                  ![req[r].found].status = "active"]
    /\ req' = [req EXCEPT ![r].pc = IF req[r].pc = "commit" THEN "commit" ELSE "add",
                          ![r].writes = @ \cup {"flip"}]
    /\ UNCHANGED <<api, customers, patient_list, started, links>>

\* Lines 362-364: mark the discovered device as linked.
LinkFlip(r) ==
    /\ req[r].op = "link" /\ req[r].pc = "flip"
    /\ devices' = [devices EXCEPT ![req[r].found].customerId = req[r].caller,
                                  ![req[r].found].status = "active"]
    /\ req' = [req EXCEPT ![r].pc = "add", ![r].writes = @ \cup {"flip"}]
    /\ UNCHANGED <<api, customers, patient_list, started, links>>

\* Variant of the device-update failure that escalates to a 500.
LinkFlipFailAbort(r) ==
    /\ req[r].op = "link" /\ req[r].pc = "flip"
    /\ req' = [req EXCEPT ![r] = [Finish(r, 500, EmptyDoc) EXCEPT !.failed = @ \cup {"flip"}]]
    /\ UNCHANGED <<api, customers, patient_list, devices, started, links>>

\* Lines 365-367: the update raises; logged and swallowed.
LinkFlipFail(r) ==
    /\ req[r].op = "link" /\ req[r].pc = "flip"
    /\ req' = [req EXCEPT ![r].pc = "add", ![r].failed = @ \cup {"flip"}]
    /\ UNCHANGED <<api, customers, patient_list, devices, started, links>>

\* Lines 372-391: add the device record under customers/U/devices.
LinkAdd(r) ==
    /\ req[r].op = "link" /\ req[r].pc = "add"
    /\ devices' = Append(devices, NewDevice(req[r].caller, req[r].serial, req[r].dev))
    /\ req' = [req EXCEPT ![r].pc = "respond", ![r].writes = @ \cup {"add"}]
    /\ UNCHANGED <<api, customers, patient_list, started, links>>

\* Lines 392-393: the add raises; logged and swallowed.
LinkAddFail(r) ==
    /\ req[r].op = "link" /\ req[r].pc = "add"
    /\ req' = [req EXCEPT ![r].pc = "respond", ![r].failed = @ \cup {"add"}]
    /\ UNCHANGED <<api, customers, patient_list, devices, started, links>>

\* Lines 396-403: re-read customers/U and shape the response.
LinkRespond(r) ==
    /\ req[r].op = "link" /\ req[r].pc = "respond"
    /\ LET doc == customers[req[r].caller]
           body == Put(doc.data, "patientId", req[r].caller)
           q == IF doc.exists /\ CustomerValid(body)
                THEN Finish(r, 200, body) ELSE Finish(r, 500, EmptyDoc)
       IN /\ req' = [req EXCEPT ![r] = q]
          /\ links' = IF q.status = 200 THEN links \cup {LinkRecord(q)} ELSE links
    /\ UNCHANGED <<api, customers, patient_list, devices, started>>

\* ------------------------------------------------- POST /customers/me
\* Variant of the creation without the existence check (an upsert).
CreateStartNoCheck(r, U, p) ==
    /\ Free(r)
    /\ started' = started + 1
    /\ LET q == [Idle EXCEPT !.op = "create", !.caller = U, !.before = customers[U]]
           data == WithDisplayName(p)
       IN IF ~Has(data, "displayName")
          THEN req' = [req EXCEPT ![r] = [q EXCEPT !.pc = "done", !.status = 422]]
          ELSE req' = [req EXCEPT ![r] = [q EXCEPT !.pc = "set", !.data = CreateData(p)]]
    /\ UNCHANGED <<api, customers, patient_list, devices, links>>

\* Lines 28-50: existence check and construction of the document.
CreateStart(r, U, p) ==
    /\ Free(r)
    /\ started' = started + 1
    /\ LET q == [Idle EXCEPT !.op = "create", !.caller = U, !.before = customers[U]]
           data == WithDisplayName(p)
       IN IF customers[U].exists
          THEN req' = [req EXCEPT ![r] = [q EXCEPT !.pc = "done", !.status = 409]]
          ELSE IF ~Has(data, "displayName")
               THEN req' = [req EXCEPT ![r] = [q EXCEPT !.pc = "done", !.status = 422]]
               ELSE req' = [req EXCEPT ![r] = [q EXCEPT !.pc = "set", !.data = CreateData(p)]]
    /\ UNCHANGED <<api, customers, patient_list, devices, links>>

\* Lines 58-61: set() of the new profile.
CreateSet(r) ==
    /\ req[r].op = "create" /\ req[r].pc = "set"
    /\ customers' = [customers EXCEPT ![req[r].caller] = Stored(req[r].data)]
    /\ req' = [req EXCEPT ![r].pc = "respond", ![r].writes = @ \cup {"commit"}]
    /\ UNCHANGED <<api, patient_list, devices, started, links>>

\* Lines 62-67: the set raises.
CreateSetFail(r) ==
    /\ req[r].op = "create" /\ req[r].pc = "set"
    /\ req' = [req EXCEPT ![r] = [Finish(r, 500, EmptyDoc) EXCEPT !.failed = @ \cup {"commit"}]]
    /\ UNCHANGED <<api, customers, patient_list, devices, started, links>>

\* Lines 69-77: re-read and shape the response.
CreateRespond(r) ==
    /\ req[r].op = "create" /\ req[r].pc = "respond"
    /\ LET doc == customers[req[r].caller]
           body == Put(doc.data, "patientId", req[r].caller)
       IN req' = [req EXCEPT ![r] = IF doc.exists /\ CustomerValid(body)
                                    THEN Finish(r, 201, body)
                                    ELSE Finish(r, 500, EmptyDoc)]
    /\ UNCHANGED <<api, customers, patient_list, devices, started, links>>

\* ---------------------------------------------------------------- Next
Next ==
    \/ \E r \in Slots, S \in Serials : LinkQueryFail(r, Owner[r], S)
    \/ \E r \in Slots, S \in Serials : LinkQuery(r, Owner[r], S)
    \/ \E r \in Slots : LinkGetParent(r)
    \/ \E r \in Slots : LinkCopy(r)
    \/ \E r \in Slots : LinkCopyFail(r)
    \/ \E r \in Slots : LinkReadUser(r)
    \/ \E r \in Slots : LinkCommit(r)
    \/ \E r \in Slots : LinkCommitFail(r)
    \/ \E r \in Slots : LinkFlip(r)
    \/ \E r \in Slots : LinkFlipFail(r)
    \/ \E r \in Slots : LinkAdd(r)
    \/ \E r \in Slots : LinkAddFail(r)
    \/ \E r \in Slots : LinkRespond(r)
    \/ \E r \in Slots : \E p \in Payloads(Owner[r]) : CreateStart(r, Owner[r], p)
    \/ \E r \in Slots : CreateSet(r)
    \/ \E r \in Slots : CreateSetFail(r)
    \/ \E r \in Slots : CreateRespond(r)

Spec == Init /\ [][Next]_vars

\* ======================================================================
\* Properties
\* ======================================================================
LinkReq(r) == req[r].op = "link"
CreateReq(r) == req[r].op = "create"
Done(r) == req[r].pc = "done"
Committed(r) == "commit" \in req[r].writes
\* The profile of the caller of r, as the store holds it now.
Profile(r) == customers[req[r].caller]
\* The fields of customers/U when request r started.
Before(r) == req[r].before.data

IdentityFields == {"lineProfile", "lineId"}

\* No device document has serial number S and status 'unlink'.
NoUnlinkDevice(S) ==
    \A i \in DOMAIN devices :
        ~(devices[i].serialNumber = S /\ devices[i].status = "unlink")

\* ------------------------------------------------------------------ C1
\* C1: every link-device request that discovered an 'unlink'
\* device whose parent record exists returns 200; afterwards customers/U
\* holds every field of the parent snapshot with the same value, and its
\* lineProfile and lineId are what customers/U held before the request.
\* (Stated for the requests none of whose store calls raised.)
C1_LinkAdoptsParent ==
    \A r \in Slots :
        (LinkReq(r) /\ req[r].resolved /\ Done(r) /\ req[r].failed = {}) =>
            /\ req[r].status = 200
            /\ Profile(r).exists
            /\ \A k \in DOMAIN req[r].snapshot :
                  Has(Profile(r).data, k) /\ Profile(r).data[k] = req[r].snapshot[k]
            /\ \A k \in IdentityFields :
                  /\ Has(Profile(r).data, k) <=> Has(Before(r), k)
                  /\ Has(Before(r), k) => Profile(r).data[k] = Before(r)[k]

\* ------------------------------------------------------------------ C2
\* A link of the same serial that returned 200 before request r started, with
\* the device flipped and every best-effort step done.
AfterFullLink(r) == \E l \in req[r].after : l.full /\ l.flipped

\* C2: after a link-device for S returned 200 with every best-effort step
\* succeeding, every later link-device for S discovers no device, writes
\* nothing and returns 404.
C2_NoSecondClaim ==
    \A r \in Slots :
        (LinkReq(r) /\ AfterFullLink(r)) =>
            /\ req[r].found = 0
            /\ req[r].writes = {}
            /\ (Done(r) /\ req[r].failed = {}) => req[r].status = 404

\* ------------------------------------------------------------------ C3
\* An earlier link of the same serial by the same caller flipped the device.
AfterOwnLink(r) ==
    \E l \in req[r].after : l.caller = req[r].caller /\ l.flipped

\* C3: a second link-device by the same caller for a device the first call
\* flipped to 'active' never changes customers/U.
C3_Idempotent ==
    [][\A r \in Slots :
          (LinkReq(r) /\ AfterOwnLink(r) /\ ~Done(r)) =>
              customers'[req[r].caller] = customers[req[r].caller]]_vars

\* ------------------------------------------------------------------ C4
\* C4: a link-device request whose discovery query runs while no device has
\* the serial number with status 'unlink' returns 404, and the step writes
\* no document.
C4_NotFound ==
    [][\A r \in Slots :
          ( /\ started' = started + 1
            /\ req'[r] # req[r]
            /\ req'[r].op = "link"
            /\ "query" \notin req'[r].failed
            /\ NoUnlinkDevice(req'[r].serial) ) =>
              /\ req'[r].pc = "done"
              /\ req'[r].status = 404
              /\ req'[r].writes = {}
              /\ UNCHANGED <<customers, patient_list, devices>>]_vars

\* A request was answered 404 because nothing matched, and the store still
\* holds no 'unlink' device for its serial.
C4_Witness ==
    \E r \in Slots :
        /\ LinkReq(r) /\ Done(r) /\ req[r].status = 404
        /\ req[r].found = 0
        /\ NoUnlinkDevice(req[r].serial)

\* ------------------------------------------------------------------ C5
\* C5: nothing separates discovery from the status flip: of two requests by
\* different callers that discovered the same device and read its parent,
\* each one whose commit did not fail commits its own profile from the same
\* parent record, whatever the other has done to the device meanwhile, and
\* returns 200 (500 only when the document fails the response schema).
C5_BothProceed ==
    \A r1, r2 \in Slots :
        ( /\ r1 # r2
          /\ LinkReq(r1) /\ LinkReq(r2)
          /\ req[r1].caller # req[r2].caller
          /\ req[r1].found # 0 /\ req[r1].found = req[r2].found
          /\ req[r1].resolved /\ req[r2].resolved ) =>
            /\ req[r1].parent = req[r2].parent
            /\ (Done(r1) /\ "commit" \notin req[r1].failed) =>
                  /\ Committed(r1)
                  /\ req[r1].status \in {200, 500}
                  /\ req[r1].status = 200 <=>
                        ( Has(req[r1].snapshot, "displayName")
                          /\ Has(req[r1].snapshot, "createDate") )

\* Both callers got 200 for the same device from the same snapshot, and both
\* flipped it: each had read it as 'unlink' before the other's flip.
C5_Witness ==
    /\ LinkReq("a") /\ LinkReq("b")
    /\ Done("a") /\ Done("b")
    /\ req["a"].status = 200 /\ req["b"].status = 200
    /\ req["a"].found = req["b"].found
    /\ req["a"].snapshot = req["b"].snapshot
    /\ "flip" \in req["a"].writes /\ "flip" \in req["b"].writes
    /\ Profile("a").exists /\ Profile("b").exists

\* ------------------------------------------------------------------ C6
\* The parent record or the device found is linked to another identity.
LinkedElsewhere(r) ==
    \/ Has(req[r].snapshot, "lineId") /\ req[r].snapshot["lineId"] # req[r].caller
    \/ req[r].dev.customerId \notin {Absent, req[r].caller}

\* C6: link-device commits nothing to customers/U and returns 409 when the
\* device or parent profile found is already linked to another identity.
C6_Conflict ==
    \A r \in Slots :
        (LinkReq(r) /\ req[r].resolved /\ LinkedElsewhere(r)) =>
            /\ ~Committed(r)
            /\ (Done(r) /\ req[r].failed = {}) => req[r].status = 409

\* ------------------------------------------------------------------ C7
BestEffort == {"copy", "flip", "add"}

\* C7: a request whose commit succeeded and some of whose best-effort writes
\* failed ends as the request without failures does: customers/U holds the
\* document built from the parent snapshot and the caller's identity fields,
\* the status is 200 (500 only when that document fails the response schema,
\* as without failures), and the body is that document.
C7_BestEffortSwallowed ==
    \A r \in Slots :
        (LinkReq(r) /\ req[r].failed \cap BestEffort # {} /\ "commit" \notin req[r].failed) =>
            /\ Committed(r) =>
                  /\ Profile(r).exists
                  /\ Profile(r).data = req[r].data
            /\ Done(r) =>
                  /\ Committed(r)
                  /\ req[r].status =
                        IF Has(req[r].snapshot, "displayName")
                           /\ Has(req[r].snapshot, "createDate")
                        THEN 200 ELSE 500
                  /\ req[r].status = 200 =>
                        /\ DOMAIN req[r].body = DOMAIN Profile(r).data \cup {"patientId"}
                        /\ \A k \in DOMAIN Profile(r).data \ {"patientId"} :
                              req[r].body[k] = Profile(r).data[k]

\* All three best-effort writes failed and the request was answered 200.
C7_Witness ==
    \E r \in Slots :
        /\ LinkReq(r) /\ Done(r) /\ req[r].status = 200
        /\ req[r].failed = BestEffort
        /\ Profile(r).data = req[r].data

\* ------------------------------------------------------------------ C8
\* C8: when the commit of customers/U fails the request ends with 500 at
\* once: it wrote neither customers/U, nor the discovered device, nor a
\* record under customers/U/devices; the discovered device does not carry
\* the caller as customerId and is 'unlink' unless another caller flipped it.
C8_CommitFailureTerminal ==
    \A r \in Slots :
        (LinkReq(r) /\ "commit" \in req[r].failed) =>
            /\ Done(r)
            /\ req[r].status = 500
            /\ req[r].writes \cap {"commit", "flip", "add"} = {}
            /\ req[r].failed \cap {"flip", "add"} = {}
            /\ devices[req[r].found].customerId # req[r].caller
            /\ \/ devices[req[r].found].status = "unlink"
               \/ devices[req[r].found].customerId \in Uids \ {req[r].caller}

\* A commit failed while the device is still 'unlink' without customerId and
\* the caller has no device record.
C8_Witness ==
    \E r \in Slots :
        /\ LinkReq(r) /\ Done(r) /\ "commit" \in req[r].failed
        /\ req[r].status = 500
        /\ devices[req[r].found].status = "unlink"
        /\ devices[req[r].found].customerId = Absent
        /\ \A i \in DOMAIN devices : devices[i].parent # Ref("customers", req[r].caller)

\* ------------------------------------------------------------------ C9
\* C9: POST /customers/me by a caller whose customers/U exists returns 409,
\* writes nothing, and customers/U is unchanged.
C9_CreateConflict ==
    \A r \in Slots :
        (CreateReq(r) /\ req[r].before.exists) =>
            /\ Done(r)
            /\ req[r].status = 409
            /\ req[r].writes = {}
            /\ Profile(r) = req[r].before

\* A creation was refused with 409 and the profile is the one held before.
C9_Witness ==
    \E r \in Slots :
        /\ CreateReq(r) /\ Done(r) /\ req[r].status = 409
        /\ req[r].before.exists
        /\ Profile(r) = req[r].before

\* ----------------------------------------------------------------- C10
\* C10: POST /customers/me by a caller without customers/U and with a display
\* name writes a document that carries createDate, and returns 201.
C10_CreateStampsCreateDate ==
    \A r \in Slots :
        (CreateReq(r) /\ ~req[r].before.exists /\ Has(req[r].data, "displayName")) =>
            /\ Committed(r) => Has(Profile(r).data, "createDate")
            /\ (Done(r) /\ req[r].failed = {}) => req[r].status = 201

\* ----------------------------------------------------------------- C19
\* The write (or swallowed failure) w is issued by r in this step.
Issues(r, w) ==
    /\ w \notin req[r].writes \cup req[r].failed
    /\ w \in req'[r].writes \cup req'[r].failed
    /\ req'[r].op = req[r].op

\* Every device marked 'active' with a customerId belongs to a caller whose
\* customers document exists.
ActiveImpliesCommitted ==
    \A i \in DOMAIN devices :
        (devices[i].status = "active" /\ devices[i].customerId \in Uids) =>
            customers[devices[i].customerId].exists

\* C19: within one link-device request the writes are issued in the order
\* copy into patient_list (if any), commit of customers/U, update of the
\* discovered device, add under customers/U/devices; a device becomes
\* 'active' with customerId U only in a step of a request of U that has
\* committed customers/U, and in every state such a device implies that
\* customers/U exists.
C19_WriteOrder ==
    [][ /\ ActiveImpliesCommitted /\ ActiveImpliesCommitted'
        /\ \A r \in Slots :
              LinkReq(r) =>
                 /\ Issues(r, "copy") =>
                       req[r].writes = {} /\ req[r].failed = {}
                 /\ Issues(r, "commit") =>
                       /\ req[r].writes \cup req[r].failed \subseteq {"copy"}
                       /\ req[r].dev.patientId # "absent" =>
                             "copy" \in req[r].writes \cup req[r].failed
                 /\ Issues(r, "flip") =>
                       /\ "commit" \in req[r].writes
                       /\ "add" \notin req[r].writes \cup req[r].failed
                 /\ Issues(r, "add") =>
                       /\ "commit" \in req[r].writes
                       /\ "flip" \in req[r].writes \cup req[r].failed
        /\ \A i \in DOMAIN devices :
              ( /\ devices'[i].status = "active" /\ devices'[i].customerId \in Uids
                /\ devices'[i] # devices[i] ) =>
                 \E r \in Slots :
                    /\ LinkReq(r) /\ req[r].caller = devices'[i].customerId
                    /\ req[r].found = i
                    /\ "commit" \in req[r].writes
                    /\ customers[req[r].caller].exists
                    /\ customers[req[r].caller].data = req[r].data ]_vars

\* A request issued all four writes; its device is 'active' with the
\* caller as customerId and customers/U holds the final document.
C19_Witness ==
    \E r \in Slots :
        /\ LinkReq(r) /\ req[r].writes = {"copy", "commit", "flip", "add"}
        /\ devices[req[r].found].status = "active"
        /\ devices[req[r].found].customerId = req[r].caller
        /\ Profile(r).exists /\ Profile(r).data = req[r].data

\* ----------------------------------------------------------------- C20
\* C20: after the commit customers/U holds no field that it held before the
\* request and that is neither in the parent snapshot nor one of
\* lineProfile, lineId, patientId.
C20_FullReplacement ==
    \A r \in Slots :
        (LinkReq(r) /\ Committed(r)) =>
            \A k \in DOMAIN Before(r) :
                (k \notin DOMAIN req[r].snapshot \cup {"lineProfile", "lineId", "patientId"})
                    => ~Has(Profile(r).data, k)

\* The caller's profile held setupDate, the parent snapshot does not, and
\* after the commit customers/U has no setupDate while it kept the lineId.
C20_Witness ==
    \E r \in Slots :
        /\ LinkReq(r) /\ Committed(r) /\ Done(r)
        /\ Has(Before(r), "setupDate") /\ ~Has(req[r].snapshot, "setupDate")
        /\ ~Has(Profile(r).data, "setupDate")
        /\ Has(Profile(r).data, "lineId") /\ Profile(r).data["lineId"] = req[r].caller

\* ----------------------------------------------------------------- C21
\* The request r has acted on the lookup collection: it read its parent
\* record there, or it issued the merge copy.
TouchedPatientList(r) ==
    \/ req[r].parent.coll = "patient_list"
    \/ "copy" \in req[r].writes \cup req[r].failed

\* C21: a step changes patient_list only as the merge write of a link-device
\* request whose discovered device carries a patientId: the document
\* patient_list/<patientId> then holds the parent snapshot's fields, customerId
\* = U, and the fields it held that the snapshot does not have; a request
\* whose device has no patientId neither reads nor writes patient_list.
C21_CopyOnlyWithPatientId ==
    [][ /\ \A r \in Slots :
              (LinkReq(r) /\ Issues(r, "copy") /\ "copy" \in req'[r].writes) =>
                 /\ req[r].dev.patientId \in PatientIds
                 /\ LET pid == req[r].dev.patientId
                        old == patient_list[pid].data
                        new == patient_list'[pid].data
                        snap == req[r].snapshot
                    IN /\ patient_list'[pid].exists
                       /\ DOMAIN new = DOMAIN old \cup DOMAIN snap \cup {"customerId"}
                       /\ new["customerId"] = req[r].caller
                       /\ \A k \in DOMAIN snap \ {"customerId"} : new[k] = snap[k]
                       /\ \A k \in DOMAIN old \ (DOMAIN snap \cup {"customerId"}) :
                             new[k] = old[k]
                       /\ \A p \in PatientIds \ {pid} : patient_list'[p] = patient_list[p]
        /\ patient_list' # patient_list =>
              \E r \in Slots : LinkReq(r) /\ Issues(r, "copy") /\ "copy" \in req'[r].writes
        /\ \A r \in Slots :
              (req'[r].op = "link" /\ req'[r].dev.patientId = Absent) =>
                 ~TouchedPatientList(r)' ]_vars

\* A request copied a customers parent record into an existing patient_list
\* document: it holds the caller as customerId, the snapshot's displayName
\* and the status field only the old document had.
C21_Witness ==
    \E r \in Slots :
        /\ LinkReq(r) /\ "copy" \in req[r].writes
        /\ req[r].parent.coll = "customers"
        /\ LET doc == patient_list[req[r].dev.patientId]
           IN /\ doc.exists
              /\ doc.data["customerId"] = req[r].caller
              /\ doc.data["displayName"] = req[r].snapshot["displayName"]
              /\ Has(doc.data, "status") /\ ~Has(req[r].snapshot, "status")

\* ----------------------------------------------------------------- C22
\* The request r is answered 404 in this step and has written nothing.
Ends404Unwritten(r) ==
    /\ req'[r].pc = "done"
    /\ req'[r].status = 404
    /\ req'[r].writes = {} /\ req'[r].failed = {}
    /\ UNCHANGED <<customers, patient_list, devices>>

\* C22: the discovery step of a link-device request that finds a device with
\* no parent document two levels up and no patientId, and the parent read of a
\* request whose parent record (by reference or by patientId in patient_list)
\* does not exist, answer 404 and write no document.
C22_MissingParentIs404 ==
    [][\A r \in Slots :
          /\ ( /\ started' = started + 1
               /\ req'[r] # req[r]
               /\ req'[r].op = "link"
               /\ req'[r].found # 0
               /\ req'[r].dev.parent = NoRef
               /\ req'[r].dev.patientId = Absent ) => Ends404Unwritten(r)
          /\ ( /\ LinkReq(r) /\ req[r].pc = "getParent"
               /\ req'[r] # req[r]
               /\ ~StoreGet(req[r].parent).exists ) => Ends404Unwritten(r)]_vars

\* A request found a root-level device, looked its patientId up in
\* patient_list, found no document there and was answered 404 without a write.
C22_Witness ==
    \E r \in Slots :
        /\ LinkReq(r) /\ Done(r) /\ req[r].status = 404
        /\ req[r].found # 0
        /\ req[r].parent = Ref("patient_list", req[r].dev.patientId)
        /\ ~patient_list[req[r].dev.patientId].exists
        /\ req[r].writes = {}

\* ----------------------------------------------------------------- C23
\* device_data.get("patientId") of the device request r discovered.
DevicePatientId(r) ==
    IF req[r].dev.patientId = Absent THEN Null ELSE req[r].dev.patientId

\* C23: the document a link-device request commits to customers/U has
\* patientId equal to the patientId of the discovered device document, null
\* when the device has none, whatever the snapshot or customers/U held.
C23_PatientIdFromDevice ==
    [][\A r \in Slots :
          (LinkReq(r) /\ Issues(r, "commit") /\ "commit" \in req'[r].writes) =>
             /\ customers'[req[r].caller].exists
             /\ Has(customers'[req[r].caller].data, "patientId")
             /\ customers'[req[r].caller].data["patientId"] = DevicePatientId(r)]_vars

\* A request whose device has no patientId committed null although the parent
\* snapshot held patientId pt1.
C23_Witness ==
    \E r \in Slots :
        /\ LinkReq(r) /\ Committed(r)
        /\ req[r].dev.patientId = Absent
        /\ Has(req[r].snapshot, "patientId") /\ req[r].snapshot["patientId"] = "pt1"
        /\ Profile(r).data["patientId"] = Null

\* ----------------------------------------------------------------- C25
\* C25: after the commit of a link-device request by U, each of lineId and
\* lineProfile of customers/U is the value customers/U held before the
\* request or absent, also when the parent snapshot holds the field and
\* customers/U did not.
C25_NoForeignIdentity ==
    \A r \in Slots :
        (LinkReq(r) /\ Committed(r)) =>
            \A k \in IdentityFields :
                Has(Profile(r).data, k) =>
                    /\ Has(Before(r), k)
                    /\ Profile(r).data[k] = Before(r)[k]

\* ----------------------------------------------------------------- C26
\* C26: a link-device request whose commit of customers/U failed with 500 has
\* written no patient_list document (with customerId = U).
C26_BackReferenceOnlyIfCommitted ==
    \A r \in Slots :
        (LinkReq(r) /\ Done(r) /\ req[r].status = 500 /\ "commit" \in req[r].failed) =>
            "copy" \notin req[r].writes

\* ----------------------------------------------------------------- C29
\* C29: a step of a link-device request by U changes at most customers/U,
\* the discovered device document, patient_list/<the device's patientId>, and
\* adds at most one document, under customers/U/devices, once per request; it
\* removes no document and leaves customers/X unchanged for every X # U.
C29_LinkWriteFrame ==
    [][\A r \in Slots :
          (req'[r] # req[r] /\ req'[r].op = "link") =>
             LET U == req'[r].caller
                 n == Len(devices)
             IN /\ \A X \in CustIds :
                      /\ X # U => customers'[X] = customers[X]
                      /\ customers[X].exists => customers'[X].exists
                /\ \A p \in PatientIds :
                      /\ p # req'[r].dev.patientId => patient_list'[p] = patient_list[p]
                      /\ patient_list[p].exists => patient_list'[p].exists
                /\ Len(devices') \in {n, n + 1}
                /\ \A i \in 1..n : i # req'[r].found => devices'[i] = devices[i]
                /\ Len(devices') = n + 1 =>
                      /\ devices'[n + 1].parent = Ref("customers", U)
                      /\ "add" \notin req[r].writes
                      /\ \A i \in 1..n : devices'[i] = devices[i]]_vars

\* One request alone issued all four writes: the store holds the untouched
\* parent record, the caller's profile, the flipped device, one added record
\* under customers/U/devices and the patient_list copy.
C29_Witness ==
    \E r \in Slots :
        /\ LinkReq(r) /\ Done(r) /\ req[r].writes = {"copy", "commit", "flip", "add"}
        /\ \A o \in Slots \ {r} : req[o].op = "none"
        /\ req[r].parent = Ref("customers", "c0") /\ customers["c0"] = Stored(PreDoc)
        /\ Profile(r).data = req[r].data
        /\ Len(devices) = 2
        /\ devices[1].customerId = req[r].caller
        /\ devices[2].parent = Ref("customers", req[r].caller)
        /\ patient_list[req[r].dev.patientId].data["customerId"] = req[r].caller

\* ======================================================================
\* Bearer credentials, clinician access and the customers CRUD of main.py
\* ======================================================================
\* What a request carries in its Authorization header.
Creds == {"valid", "invalid", "missing"}
\* Patient ids the requests of this part ask for.
Targets == {"c0", "u1"}
\* Ids the store generates for document() without an id.
AutoIds == {"n1"}
\* Calendar dates of daily reports, and values of the limit parameter.
Dates == {1, 2}
Limits == {1, 2}

NewCall(op, U, cred, target) ==
    [NoCall EXCEPT !.op = op, !.who = U, !.cred = cred, !.target = target]

\* A session sends its next request once the previous one was answered.
CallFree(r) == call[r].pc \in {"idle", "done"} /\ started < MaxRequests

Answer(q, st, detail) == [q EXCEPT !.pc = "done", !.status = st, !.detail = detail]

\* deps.get_current_user behind HTTPBearer: without a header the security
\* scheme refuses, a token that fails verification gives 401, and the
\* handler body runs only for a verified token.
Authenticate(q) ==
    IF q.cred = "missing" THEN Answer(q, 403, "Not authenticated")
    ELSE IF q.cred = "invalid" THEN Answer(q, 401, "Invalid authentication credentials")
    ELSE [q EXCEPT !.pc = "run"]

\* clinician_doc.to_dict().get("assignedPatients", [])
AssignedPatients(doc) ==
    IF Has(doc.data, "assignedPatients") THEN doc.data["assignedPatients"] ELSE {}

\* The 403 details of the two handlers.
ForbiddenDetail(op) ==
    IF op = "clinProfile" THEN "You are not authorized to view this patient's profile"
    ELSE "You are not authorized to view this patient's reports"

\* ---------------------------------------------------- daily report documents
\* A document of the subcollection coll ("dailyReports" or "reports") of
\* customers/<parent>: its id and its fields.
Report(coll, parent, id, data) == [coll |-> coll, parent |-> parent, id |-> id, data |-> data]

\* date.strftime('%Y-%m-%d')
Iso(d) == IF d = 1 THEN "2023-10-26" ELSE "2023-10-27"

\* datetime.combine(date, datetime.min.time())
AtMidnight(d) == <<d, 0>>

ReportsOf(P) == {x \in subdocs : x.coll = "dailyReports" /\ x.parent = P}

\* order_by("reportDate", DESCENDING).limit(n).stream(): documents without
\* the field are not returned.
RECURSIVE Newest(_, _)
Newest(S, n) ==
    LET T == {x \in S : Has(x.data, "reportDate")}
    IN IF n = 0 \/ T = {} THEN <<>>
       ELSE LET top == CHOOSE x \in T :
                         \A y \in T : y.data["reportDate"][1] <= x.data["reportDate"][1]
            IN <<top>> \o Newest(T \ {top}, n - 1)

\* report_data["reportId"] = doc.id
WithReportId(x) == Put(x.data, "reportId", x.id)

\* schemas.DailyReport.model_validate: reportDate and usageHours are among
\* the required fields.
ReportValid(data) == Has(data, "reportDate") /\ Has(data, "usageHours") /\ Has(data, "reportId")

\* ------------------------------------------- GET /clinician/patients/{id}...
\* The request arrives at get_patient_profile or get_patient_daily_reports;
\* the dependency verifies the bearer credential.
ClinRequest(r, op, P, n, cred) ==
    /\ CallFree(r)
    /\ started' = started + 1
    /\ call' = [call EXCEPT ![r] =
                  Authenticate([NewCall(op, Owner[r], cred, P) EXCEPT !.limit = n])]
    /\ UNCHANGED <<customers, devices, linking, clinicians, subdocs, identities>>

\* Variant of the authorization that looks the patient up first and answers
\* 404 for a patient that does not exist.
ClinAuthorizePatientFirst(r) ==
    /\ call[r].op \in {"clinProfile", "clinReports"} /\ call[r].pc = "run"
    /\ LET doc == clinicians[call[r].who]
           q == [call[r] EXCEPT !.reads = @ \cup {Path("customers", call[r].target),
                                                  Path("clinicians", call[r].who)}]
       IN IF ~customers[call[r].target].exists
          THEN call' = [call EXCEPT ![r] = Answer(q, 404, "Patient profile not found")]
          ELSE IF ~doc.exists \/ call[r].target \notin AssignedPatients(doc)
               THEN call' = [call EXCEPT ![r] = Answer(q, 403, ForbiddenDetail(call[r].op))]
               ELSE call' = [call EXCEPT ![r] = [q EXCEPT !.pc = "fetch"]]
    /\ UNCHANGED <<customers, devices, linking, started, clinicians, subdocs, identities>>

\* clinicians.py lines 58-65 and 94-101: read clinicians/<uid> and refuse
\* unless the patient is assigned.
ClinAuthorize(r) ==
    /\ call[r].op \in {"clinProfile", "clinReports"} /\ call[r].pc = "run"
    /\ LET doc == clinicians[call[r].who]
           q == [call[r] EXCEPT !.reads = @ \cup {Path("clinicians", call[r].who)}]
       IN IF ~doc.exists \/ call[r].target \notin AssignedPatients(doc)
          THEN call' = [call EXCEPT ![r] = Answer(q, 403, ForbiddenDetail(call[r].op))]
          ELSE call' = [call EXCEPT ![r] = [q EXCEPT !.pc = "fetch"]]
    /\ UNCHANGED <<customers, devices, linking, started, clinicians, subdocs, identities>>

\* clinicians.py lines 68-79: read customers/<patientId>.
ClinFetchProfile(r) ==
    /\ call[r].op = "clinProfile" /\ call[r].pc = "fetch"
    /\ LET doc == customers[call[r].target]
           q == [call[r] EXCEPT !.reads = @ \cup {Path("customers", call[r].target)}]
           body == Put(doc.data, "patientId", call[r].target)
       IN call' = [call EXCEPT ![r] =
                     IF ~doc.exists THEN Answer(q, 404, "Patient profile not found")
                     ELSE IF CustomerValid(body)
                          THEN [Answer(q, 200, "none") EXCEPT !.body = body]
                          ELSE Answer(q, 500, "Internal Server Error")]
    /\ UNCHANGED <<customers, devices, linking, started, clinicians, subdocs, identities>>

\* clinicians.py lines 104-119: stream customers/<patientId>/dailyReports.
ClinFetchReports(r) ==
    /\ call[r].op = "clinReports" /\ call[r].pc = "fetch"
    /\ LET found == Newest(ReportsOf(call[r].target), call[r].limit)
           items == [i \in DOMAIN found |-> WithReportId(found[i])]
           q == [call[r] EXCEPT !.reads = @ \cup {Path("dailyReports", call[r].target)}]
       IN call' = [call EXCEPT ![r] =
                     IF \A i \in DOMAIN items : ReportValid(items[i])
                     THEN [Answer(q, 200, "none") EXCEPT !.items = items]
                     ELSE Answer(q, 500, "Internal Server Error")]
    /\ UNCHANGED <<customers, devices, linking, started, clinicians, subdocs, identities>>

\* ------------------------------------------------- main.py: /customers CRUD
\* The routes of main.py declare the store client as their only dependency:
\* whatever the request carries in its Authorization header, the body runs.
MainRequest(r, op, P, cred) ==
    /\ CallFree(r)
    /\ started' = started + 1
    /\ call' = [call EXCEPT ![r] = [NewCall(op, Owner[r], cred, P) EXCEPT !.pc = "run"]]
    /\ UNCHANGED <<customers, devices, linking, clinicians, subdocs, identities>>

\* customer_dict of create_customer (lines 40-44) for a payload with a
\* display name and no setupDate.
MainCreateData == ("displayName" :> "Walk-in") @@ ("setupDate" :> "now")

\* main.py lines 46-51: set() under a generated id, then read it back.
MainCreate(r) ==
    /\ call[r].op = "mainCreate" /\ call[r].pc = "run"
    /\ \E id \in AutoIds \ DOMAIN customers :
          /\ customers' = (id :> Stored(MainCreateData)) @@ customers
          /\ call' = [call EXCEPT ![r] =
                        [Answer(call[r], 201, "none") EXCEPT
                            !.target = id,
                            !.writes = @ \cup {Path("customers", id)},
                            !.reads = @ \cup {Path("customers", id)},
                            !.body = Put(MainCreateData, "id", id)]]
    /\ UNCHANGED <<devices, linking, started, clinicians, subdocs, identities>>

\* main.py lines 75-79: get_customer_by_id.
MainGet(r) ==
    /\ call[r].op = "mainGet" /\ call[r].pc = "run"
    /\ LET doc == customers[call[r].target]
           q == [call[r] EXCEPT !.reads = @ \cup {Path("customers", call[r].target)}]
       IN call' = [call EXCEPT ![r] =
                     IF ~doc.exists THEN Answer(q, 404, "Customer not found")
                     ELSE [Answer(q, 200, "none") EXCEPT
                              !.body = Put(doc.data, "id", call[r].target)]]
    /\ UNCHANGED <<customers, devices, linking, started, clinicians, subdocs, identities>>

\* main.py lines 111-115: delete_customer checks that the document exists.
MainDeleteCheck(r) ==
    /\ call[r].op = "mainDelete" /\ call[r].pc = "run"
    /\ LET doc == customers[call[r].target]
           q == [call[r] EXCEPT !.reads = @ \cup {Path("customers", call[r].target)}]
       IN call' = [call EXCEPT ![r] =
                     IF ~doc.exists THEN Answer(q, 404, "Customer not found to delete")
                     ELSE [q EXCEPT !.pc = "delete"]]
    /\ UNCHANGED <<customers, devices, linking, started, clinicians, subdocs, identities>>

\* main.py lines 117-118: delete the document, 204.
MainDelete(r) ==
    /\ call[r].op = "mainDelete" /\ call[r].pc = "delete"
    /\ customers' = [customers EXCEPT ![call[r].target] = NoDoc]
    /\ call' = [call EXCEPT ![r] =
                  [Answer(call[r], 204, "none") EXCEPT
                      !.writes = @ \cup {Path("customers", call[r].target)}]]
    /\ UNCHANGED <<devices, linking, started, clinicians, subdocs, identities>>

\* --------------------------------------------------------------- AccessSpec
\* The records of the clinicians collection the requests meet.
ClinicianDocs ==
    { NoDoc, Stored(EmptyDoc), Stored("assignedPatients" :> {"c0"}),
      Stored("assignedPatients" :> {"c0", "u1"}) }

\* A stored daily report of customer P for date d.
StoredReport(P, d, h) ==
    Report("dailyReports", P, Iso(d), ("reportDate" :> AtMidnight(d)) @@ ("usageHours" :> h))

AccessInit ==
    /\ \E present \in SUBSET Targets :
          customers = [i \in CustIds |-> IF i \in present THEN Stored(PreDoc) ELSE NoDoc]
    /\ \E k \in ClinicianDocs :
          clinicians = [c \in Uids |-> IF c = "u1" THEN k ELSE Stored(EmptyDoc)]
    /\ subdocs = {StoredReport("c0", 1, 7), StoredReport("c0", 2, 8)}
    /\ identities = {}
    /\ call = [r \in Slots |-> NoCall]
    /\ patient_list = [i \in PatientIds |-> NoDoc]
    /\ devices = <<>>
    /\ req = [r \in Slots |-> Idle]
    /\ started = 0
    /\ links = {}

AccessNext ==
    \/ \E r \in Slots, P \in Targets, cred \in Creds :
          ClinRequest(r, "clinProfile", P, 0, cred)
    \/ \E r \in Slots, P \in Targets, n \in Limits, cred \in Creds :
          ClinRequest(r, "clinReports", P, n, cred)
    \/ \E r \in Slots : ClinAuthorize(r)
    \/ \E r \in Slots : ClinFetchProfile(r)
    \/ \E r \in Slots : ClinFetchReports(r)
    \/ \E r \in Slots, op \in {"mainGet", "mainDelete"}, P \in Targets, cred \in Creds :
          MainRequest(r, op, P, cred)
    \/ \E r \in Slots, cred \in Creds : MainRequest(r, "mainCreate", "none", cred)
    \/ \E r \in Slots : MainCreate(r)
    \/ \E r \in Slots : MainGet(r)
    \/ \E r \in Slots : MainDeleteCheck(r)
    \/ \E r \in Slots : MainDelete(r)

AccessSpec == AccessInit /\ [][AccessNext]_vars

\* ----------------------------------------------------------------- C11
ClinCall(r) == call[r].op \in {"clinProfile", "clinReports"}
Answered(r) == call[r].pc = "done"
\* The caller of r has no clinician record, or one that does not list the
\* patient r asks for.
NotAssigned(r) ==
    \/ ~clinicians[call[r].who].exists
    \/ ~Has(clinicians[call[r].who].data, "assignedPatients")
    \/ call[r].target \notin clinicians[call[r].who].data["assignedPatients"]

\* C11: a verified clinician whose record is missing or does not list
\* patientId gets 403, never 404, from both patient routes; the handler has
\* not read customers/patientId or its dailyReports, and two such requests to
\* the same route get the same response whether or not the patient exists.
C11_ForbiddenNot404 ==
    /\ \A r \in Slots :
          (ClinCall(r) /\ call[r].cred = "valid" /\ NotAssigned(r)) =>
              /\ Path("customers", call[r].target) \notin call[r].reads
              /\ Path("dailyReports", call[r].target) \notin call[r].reads
              /\ Answered(r) =>
                    /\ call[r].status = 403
                    /\ call[r].body = EmptyDoc /\ call[r].items = <<>>
    /\ \A r1, r2 \in Slots :
          ( /\ ClinCall(r1) /\ ClinCall(r2) /\ call[r1].op = call[r2].op
            /\ call[r1].cred = "valid" /\ call[r2].cred = "valid"
            /\ NotAssigned(r1) /\ NotAssigned(r2)
            /\ Answered(r1) /\ Answered(r2) ) =>
              /\ call[r1].status = call[r2].status
              /\ call[r1].detail = call[r2].detail
              /\ call[r1].body = call[r2].body

\* Two refused requests to the same route, one for a patient whose record
\* exists and one for a patient without record.
C11_Witness ==
    \E r1, r2 \in Slots :
        /\ ClinCall(r1) /\ ClinCall(r2) /\ call[r1].op = call[r2].op
        /\ call[r1].cred = "valid" /\ call[r2].cred = "valid"
        /\ NotAssigned(r1) /\ NotAssigned(r2)
        /\ Answered(r1) /\ Answered(r2)
        /\ call[r1].status = 403 /\ call[r2].status = 403
        /\ customers[call[r1].target].exists
        /\ ~customers[call[r2].target].exists

\* ----------------------------------------------------------------- C12
\* C12: a request that does not carry a valid bearer credential has caused
\* no store read and no store write.
C12_NoStoreAccessUnverified ==
    \A r \in Slots :
        (call[r].op # "none" /\ call[r].cred # "valid") =>
            call[r].reads = {} /\ call[r].writes = {}

\* ======================================================================
\* Daily reports of the caller: /customers/me/dailyReports
\* ======================================================================
\* Values of usageHours in the payloads.
Hours == {7, 8}

\* report_data of submit_daily_report (lines 419-422).
ReportData(d, h) == ("reportDate" :> AtMidnight(d)) @@ ("usageHours" :> h)

\* POST arrives: verify the credential, compute report_id and report_data
\* (lines 414-422).
SubmitRequest(r, d, h, cred) ==
    /\ CallFree(r)
    /\ started' = started + 1
    /\ call' = [call EXCEPT ![r] =
                  Authenticate([NewCall("submit", Owner[r], cred, Iso(d)) EXCEPT
                                   !.body = ReportData(d, h)])]
    /\ UNCHANGED <<customers, devices, linking, clinicians, subdocs, identities>>

\* Variant of the write through add(): the store generates the document id.
SubmitAdd(r) ==
    /\ call[r].op = "submit" /\ call[r].pc = "run"
    /\ \E id \in AutoIds :
          /\ \A x \in subdocs : x.id # id
          /\ subdocs' = subdocs \cup {Report("dailyReports", call[r].who, id, call[r].body)}
          /\ call' = [call EXCEPT ![r].pc = "readback", ![r].target = id,
                                  ![r].writes = @ \cup {Path("dailyReports", call[r].who)}]
    /\ UNCHANGED <<customers, devices, linking, started, clinicians, identities>>

\* Line 424: report_ref.set(report_data) on dailyReports/<report_id>.
SubmitSet(r) ==
    /\ call[r].op = "submit" /\ call[r].pc = "run"
    /\ LET old == {x \in ReportsOf(call[r].who) : x.id = call[r].target}
       IN /\ subdocs' = (subdocs \ old) \cup
                          {Report("dailyReports", call[r].who, call[r].target, call[r].body)}
          /\ call' = [call EXCEPT ![r].pc = "readback", ![r].seen = old,
                                  ![r].writes = @ \cup {Path("dailyReports", call[r].who)}]
    /\ UNCHANGED <<customers, devices, linking, started, clinicians, identities>>

\* Lines 427-437: read the document back and shape the response.
SubmitRespond(r) ==
    /\ call[r].op = "submit" /\ call[r].pc = "readback"
    /\ LET docs == {x \in ReportsOf(call[r].who) : x.id = call[r].target}
           q == [call[r] EXCEPT !.reads = @ \cup {Path("dailyReports", call[r].who)}]
       IN call' = [call EXCEPT ![r] =
            IF docs = {} THEN [Answer(q, 500, "Failed to retrieve report after creation.")
                                  EXCEPT !.body = EmptyDoc]
            ELSE LET body == WithReportId(CHOOSE x \in docs : TRUE)
                 IN IF ReportValid(body)
                    THEN [Answer(q, 201, "none") EXCEPT !.body = body]
                    ELSE [Answer(q, 500, "Internal Server Error") EXCEPT !.body = EmptyDoc]]
    /\ UNCHANGED <<customers, devices, linking, started, clinicians, subdocs, identities>>

\* GET arrives at get_my_daily_reports (lines 440-444).
ListRequest(r, n, cred) ==
    /\ CallFree(r)
    /\ started' = started + 1
    /\ call' = [call EXCEPT ![r] =
                  Authenticate([NewCall("list", Owner[r], cred, Owner[r]) EXCEPT !.limit = n])]
    /\ UNCHANGED <<customers, devices, linking, clinicians, subdocs, identities>>

\* Lines 448-460: stream the newest reports of the caller.
ListRun(r) ==
    /\ call[r].op = "list" /\ call[r].pc = "run"
    /\ LET found == Newest(ReportsOf(call[r].who), call[r].limit)
           items == [i \in DOMAIN found |-> WithReportId(found[i])]
           q == [call[r] EXCEPT !.reads = @ \cup {Path("dailyReports", call[r].who)}]
       IN call' = [call EXCEPT ![r] =
                     IF \A i \in DOMAIN items : ReportValid(items[i])
                     THEN [Answer(q, 200, "none") EXCEPT !.items = items]
                     ELSE Answer(q, 500, "Internal Server Error")]
    /\ UNCHANGED <<customers, devices, linking, started, clinicians, subdocs, identities>>

\* --------------------------------------------------------------- ReportSpec
ReportInit ==
    /\ \E before \in SUBSET {StoredReport("u1", 1, 7), StoredReport("u2", 2, 7)} :
          subdocs = before
    /\ customers = [i \in CustIds |-> IF i \in Uids THEN Stored(LineProfileDoc(i)) ELSE NoDoc]
    /\ clinicians = [c \in Uids |-> NoDoc]
    /\ identities = {}
    /\ call = [r \in Slots |-> NoCall]
    /\ patient_list = [i \in PatientIds |-> NoDoc]
    /\ devices = <<>>
    /\ req = [r \in Slots |-> Idle]
    /\ started = 0
    /\ links = {}

ReportNext ==
    \/ \E r \in Slots, d \in Dates, h \in Hours, cred \in Creds : SubmitRequest(r, d, h, cred)
    \/ \E r \in Slots : SubmitSet(r)
    \/ \E r \in Slots : SubmitRespond(r)
    \/ \E r \in Slots, n \in Limits, cred \in Creds : ListRequest(r, n, cred)
    \/ \E r \in Slots : ListRun(r)

ReportSpec == ReportInit /\ [][ReportNext]_vars

\* ----------------------------------------------------------------- C13
\* The calendar date a stored report is for.
DateOf(x) == x.data["reportDate"][1]
DailyOf(S, U) == {x \in S : x.coll = "dailyReports" /\ x.parent = U}

\* C13: customers/U/dailyReports holds at most one document per calendar
\* date and its id is the ISO string of that date; every write of a report
\* leaves, for its date, exactly one document holding the submitted content,
\* and leaves the reports of other dates and customers as they were.
C13_OneReportPerDate ==
    /\ [](\A x, y \in subdocs :
             (x.coll = "dailyReports" /\ y.coll = "dailyReports") =>
                /\ x.id = (IF DateOf(x) = 1 THEN "2023-10-26" ELSE "2023-10-27")
                /\ (x.parent = y.parent /\ DateOf(x) = DateOf(y)) => x = y)
    /\ [][\A r \in Slots :
             (call[r].op = "submit" /\ call[r].writes = {} /\ call'[r].writes # {}) =>
                LET U == call[r].who
                    d == call[r].body["reportDate"][1]
                IN /\ \E x \in DailyOf(subdocs', U) :
                         /\ x.data = call[r].body
                         /\ {y \in DailyOf(subdocs', U) : DateOf(y) = d} = {x}
                   /\ {y \in subdocs' : ~(y.parent = U /\ DateOf(y) = d)}
                         = {y \in subdocs : ~(y.parent = U /\ DateOf(y) = d)}]_vars

\* A resubmission for a date that had a report with other content: the one
\* document of that date now holds the new content.
C13_Witness ==
    \E r \in Slots :
        /\ call[r].op = "submit" /\ Answered(r) /\ call[r].status = 201
        /\ \E old \in call[r].seen : old.data["usageHours"] # call[r].body["usageHours"]
        /\ \E x \in DailyOf(subdocs, call[r].who) :
              /\ x.id = call[r].target
              /\ x.data["usageHours"] = call[r].body["usageHours"]
              /\ \A y \in DailyOf(subdocs, call[r].who) : DateOf(y) = DateOf(x) => y = x

\* ======================================================================
\* POST /auth/line
\* ======================================================================
\* What the token endpoint of LINE and the decoding of its id token give for
\* the authorization code of a request: the exchange is refused, the answer
\* has no id_token, the id token fails jwt.decode, it has no sub, or it is
\* the id token of the LINE user that sent the request.
Exchanges == {"refused", "noIdToken", "badIdToken", "noSub", "verified"}

\* LINE_CHANNEL_ID and LINE_CHANNEL_SECRET are set in the deployment.
Configured == TRUE

\* customers.where(lineId == L): the ids of the matching documents.
ByLineId(L) ==
    {c \in DOMAIN customers :
        customers[c].exists /\ Has(customers[c].data, "lineId")
        /\ customers[c].data["lineId"] = L}

\* LineLoginResponse(status=..., firebase_token=..., line_profile=...).
LoginResponse(st, token, profile) ==
    ("status" :> st) @@ ("firebase_token" :> token) @@ ("line_profile" :> profile)

\* auth.py lines 47-102: configuration check, code exchange, id token.
LoginRequest(r, x) ==
    /\ CallFree(r)
    /\ started' = started + 1
    /\ LET q == NewCall("login", Owner[r], x, "none")
       IN call' = [call EXCEPT ![r] =
            IF ~Configured THEN Answer(q, 500, "Authentication service is not configured.")
            ELSE IF x = "refused"
                 THEN Answer(q, 400, "Failed to exchange LINE authorization code")
                 ELSE IF x # "verified" THEN Answer(q, 400, "Invalid ID token from LINE.")
                      ELSE [q EXCEPT !.pc = "query"]]
    /\ UNCHANGED <<customers, devices, linking, clinicians, subdocs, identities>>

\* auth.py lines 105-118 and 128-139: a customer record with this lineId is
\* looked up; without one the answer is registration_required.
LoginQuery(r) ==
    /\ call[r].op = "login" /\ call[r].pc = "query"
    /\ LET docs == ByLineId(call[r].who)
           q == [call[r] EXCEPT !.reads = @ \cup {Path("customers", "lineId")}]
       IN IF docs = {}
          THEN call' = [call EXCEPT ![r] =
                 [Answer(q, 200, "none") EXCEPT
                     !.body = LoginResponse("registration_required", Null, call[r].who)]]
          ELSE \E c \in docs :
                 call' = [call EXCEPT ![r] = [q EXCEPT !.pc = "token", !.target = c]]
    /\ UNCHANGED <<customers, devices, linking, started, clinicians, subdocs, identities>>

\* auth.py lines 140-145: the query raises.
LoginQueryFail(r) ==
    /\ call[r].op = "login" /\ call[r].pc = "query"
    /\ call' = [call EXCEPT ![r] =
                  Answer(call[r], 500, "A database error occurred during the login process.")]
    /\ UNCHANGED <<customers, devices, linking, started, clinicians, subdocs, identities>>

\* Variant of the token step that issues the token for the LINE subject
\* instead of the id of the document found.
LoginTokenForSubject(r) ==
    /\ call[r].op = "login" /\ call[r].pc = "token"
    /\ call' = [call EXCEPT ![r] =
                  [Answer(call[r], 200, "none") EXCEPT
                      !.body = LoginResponse("login_success", call[r].who, Null)]]
    /\ UNCHANGED <<customers, devices, linking, started, clinicians, subdocs, identities>>

\* auth.py lines 120-124: custom token for the id of the document found.
LoginToken(r) ==
    /\ call[r].op = "login" /\ call[r].pc = "token"
    /\ call' = [call EXCEPT ![r] =
                  [Answer(call[r], 200, "none") EXCEPT
                      !.body = LoginResponse("login_success", call[r].target, Null)]]
    /\ UNCHANGED <<customers, devices, linking, started, clinicians, subdocs, identities>>

\* auth.py lines 125-127 and 140-145: create_custom_token raises; the 500 it
\* is turned into is caught again by the outer handler.
LoginTokenFail(r) ==
    /\ call[r].op = "login" /\ call[r].pc = "token"
    /\ call' = [call EXCEPT ![r] =
                  Answer(call[r], 500, "A database error occurred during the login process.")]
    /\ UNCHANGED <<customers, devices, linking, started, clinicians, subdocs, identities>>

\* ----------------------------------------------------------------- AuthSpec
\* Profiles as they are before a login: a caller may have registered a
\* profile carrying their lineId, and the provisioned record c0 may carry the
\* lineId of u1 (set by link-account).
AuthInit ==
    /\ \E f \in [Uids -> BOOLEAN], linked \in BOOLEAN :
          customers = [i \in CustIds |->
                         IF i = "c0"
                         THEN (IF linked THEN Stored(Put(PreDoc, "lineId", "u1"))
                               ELSE Stored(PreDoc))
                         ELSE IF f[i] THEN Stored(LineProfileDoc(i)) ELSE NoDoc]
    /\ \E known \in SUBSET Uids : identities = known
    /\ clinicians = [c \in Uids |-> NoDoc]
    /\ subdocs = {}
    /\ call = [r \in Slots |-> NoCall]
    /\ patient_list = [i \in PatientIds |-> NoDoc]
    /\ devices = <<>>
    /\ req = [r \in Slots |-> Idle]
    /\ started = 0
    /\ links = {}

AuthNext ==
    \/ \E r \in Slots, x \in Exchanges : LoginRequest(r, x)
    \/ \E r \in Slots : LoginQuery(r)
    \/ \E r \in Slots : LoginQueryFail(r)
    \/ \E r \in Slots : LoginToken(r)
    \/ \E r \in Slots : LoginTokenFail(r)

AuthSpec == AuthInit /\ [][AuthNext]_vars

\* ----------------------------------------------------------------- C14
\* C14: a login of a verified LINE user that was answered without a
\* store or token failure returned an issued custom token, and the identity
\* service holds an account whose uid is the LINE user id: created by the
\* request if there was none, and nothing is created if there was one.
C14_FindOrCreateIdentity ==
    \A r \in Slots :
        ( /\ call[r].op = "login" /\ Answered(r)
          /\ call[r].cred = "verified" /\ call[r].status # 500 ) =>
            /\ call[r].status = 200
            /\ call[r].body["firebase_token"] # "null"
            /\ call[r].who \in identities

\* ----------------------------------------------------------------- C24
\* The answer of login request r, as far as it is a LineLoginResponse.
LoginAnswer(r) ==
    LET b == call[r].body
        matching == ByLineId(call[r].who)
    IN IF call[r].status # 200
       THEN b = EmptyDoc
       ELSE /\ b["status"] \in {"login_success", "registration_required"}
            /\ (b["firebase_token"] # Null) <=> (b["status"] = "login_success")
            /\ (b["status"] = "login_success") <=> (matching # {})
            /\ b["status"] = "login_success" =>
                  b["firebase_token"] \in matching /\ b["line_profile"] = Null
            /\ b["status"] = "registration_required" =>
                  b["line_profile"] = call[r].who /\ b["firebase_token"] = Null

Channel == "channel"

\* What the verify endpoint of LINE answers for the token of a request sent
\* by LINE user U: how the call ended, and for a 200 the client_id and sub
\* of the body (Absent: the key is missing).
Answers(U) ==
    { [http |-> "ok", code |-> 200, client_id |-> Channel, sub |-> U],
      [http |-> "ok", code |-> 200, client_id |-> "other", sub |-> U],
      [http |-> "ok", code |-> 200, client_id |-> Absent, sub |-> U],
      [http |-> "ok", code |-> 200, client_id |-> Channel, sub |-> Absent],
      [http |-> "ok", code |-> 200, client_id |-> Channel, sub |-> ""],
      [http |-> "rejected", code |-> 400, client_id |-> Absent, sub |-> Absent],
      [http |-> "rejectedNotJson", code |-> 400, client_id |-> Channel, sub |-> U],
      [http |-> "unreachable", code |-> 0, client_id |-> Absent, sub |-> Absent],
      [http |-> "notJson", code |-> 200, client_id |-> Absent, sub |-> Absent] }

\* The outcome of a verification: the subject id, or the HTTP error raised.
Subject(sub) == [ok |-> TRUE, sub |-> sub, status |-> 0]
Refused(st) == [ok |-> FALSE, sub |-> "none", status |-> st]

\* Variant of the verification that does not compare client_id with the
\* channel id.
VerifyLineTokenAnyChannel(ans) ==
    IF ans.http = "unreachable" THEN Refused(500)
    ELSE IF ans.http = "rejected" THEN Refused(ans.code)
    ELSE IF ans.http = "rejectedNotJson" THEN Refused(500)
    ELSE IF ans.http = "notJson" THEN Refused(400)
    ELSE IF ans.sub \in {Absent, ""} THEN Refused(401)
    ELSE Subject(ans.sub)

\* dependencies/auth.py lines 8-43.
VerifyLineToken(ans) ==
    IF ans.http = "unreachable" THEN Refused(500)
    ELSE IF ans.http = "rejected" THEN Refused(ans.code)
    ELSE IF ans.http = "rejectedNotJson" THEN Refused(500)
    ELSE IF ans.http = "notJson" THEN Refused(400)
    ELSE IF ans.client_id # Channel THEN Refused(401)
    ELSE IF ans.sub \in {Absent, ""} THEN Refused(401)
    ELSE Subject(ans.sub)

\* data.get("lineId"): Null when the key is missing.
LineIdOf(doc) == IF Has(doc.data, "lineId") THEN doc.data["lineId"] ELSE Null
\* Truthiness of a lineId value.
Truthy(v) == v \notin {Null, ""}

\* The customer records that have a lineId.
Linked == {c \in DOMAIN customers : customers[c].exists /\ Truthy(LineIdOf(customers[c]))}

\* A request arrives at a route behind get_current_line_id (lines 45-50):
\* the handler body runs with the subject id the verification returned.
LineRequest(r, op, target, ans) ==
    /\ CallFree(r)
    /\ started' = started + 1
    /\ LET v == VerifyLineToken(ans)
           q == [NewCall(op, "none", IF v.ok THEN "valid" ELSE "invalid", target)
                    EXCEPT !.idp = ans, !.seen = Linked]
       IN call' = [call EXCEPT ![r] =
                     IF v.ok THEN [q EXCEPT !.who = v.sub, !.pc = "run"]
                     ELSE Answer(q, v.status, "verification failed")]
    /\ UNCHANGED <<customers, devices, linking, clinicians, subdocs, identities>>

\* --------------------------------------------------- POST /users/link-account
\* users.py lines 45-63: find a device by serial number (no status filter,
\* limit 1) and take the customer document above it.  For a device of a
\* root-level collection that reference is None and the call on it fails.
LaQuery(r) ==
    /\ call[r].op = "linkAccount" /\ call[r].pc = "run"
    /\ LET matches == {i \in DOMAIN devices : devices[i].serialNumber = call[r].target}
           q == [call[r] EXCEPT !.reads = @ \cup {Path("devices", call[r].target)}]
       IN IF matches = {}
          THEN call' = [call EXCEPT ![r] = Answer(q, 404, "Device not found")]
          ELSE \E i \in matches :
                 call' = [call EXCEPT ![r] =
                            IF devices[i].parent = NoRef
                            THEN Answer(q, 500, "Internal Server Error")
                            ELSE [q EXCEPT !.ref = devices[i].parent, !.pc = "get"]]
    /\ UNCHANGED <<customers, devices, linking, started, clinicians, subdocs, identities>>

\* Variant of the comparison without the conflict branch: a record linked to
\* another LINE id is treated like a record linked to the caller.
LaGetNoConflict(r) ==
    /\ call[r].op = "linkAccount" /\ call[r].pc = "get"
    /\ LET doc == StoreGet(call[r].ref)
           existing == LineIdOf(doc)
           q == [call[r] EXCEPT !.snap = doc,
                                !.reads = @ \cup {Path(call[r].ref.coll, call[r].ref.id)}]
       IN call' = [call EXCEPT ![r] =
            IF ~doc.exists THEN Answer(q, 500, "Internal Server Error")
            ELSE IF ~Truthy(existing) THEN [q EXCEPT !.pc = "update"]
            ELSE Answer(q, 204, "none")]
    /\ UNCHANGED <<customers, devices, linking, started, clinicians, subdocs, identities>>

\* users.py lines 64-75: read the customer document and compare its lineId
\* with the caller's.  to_dict() of a missing document is None and the
\* lookup on it fails.
LaGet(r) ==
    /\ call[r].op = "linkAccount" /\ call[r].pc = "get"
    /\ LET doc == StoreGet(call[r].ref)
           existing == LineIdOf(doc)
           q == [call[r] EXCEPT !.snap = doc,
                                !.reads = @ \cup {Path(call[r].ref.coll, call[r].ref.id)}]
       IN call' = [call EXCEPT ![r] =
            IF ~doc.exists THEN Answer(q, 500, "Internal Server Error")
            ELSE IF Truthy(existing) /\ existing # call[r].who
                 THEN Answer(q, 409, "This device is already linked to another account.")
                 ELSE IF ~Truthy(existing) THEN [q EXCEPT !.pc = "update"]
                      ELSE Answer(q, 204, "none")]
    /\ UNCHANGED <<customers, devices, linking, started, clinicians, subdocs, identities>>

\* Variant of the update that stores the serial number of the request.
LaUpdateSerial(r) ==
    /\ call[r].op = "linkAccount" /\ call[r].pc = "update"
    /\ LET c == call[r].ref.id
       IN IF call[r].ref.coll = "customers" /\ customers[c].exists
          THEN /\ customers' = [customers EXCEPT ![c] =
                                  Stored(Put(@.data, "lineId", call[r].target))]
               /\ call' = [call EXCEPT ![r] =
                             [Answer(call[r], 204, "none") EXCEPT
                                 !.writes = @ \cup {Path("customers", c)}]]
          ELSE /\ customers' = customers
               /\ call' = [call EXCEPT ![r] = Answer(call[r], 500, "Internal Server Error")]
    /\ UNCHANGED <<devices, linking, started, clinicians, subdocs, identities>>

\* users.py lines 72-75: customer_ref.update({"lineId": line_id}); update()
\* of a missing document raises.
LaUpdate(r) ==
    /\ call[r].op = "linkAccount" /\ call[r].pc = "update"
    /\ LET c == call[r].ref.id
       IN IF call[r].ref.coll = "customers" /\ customers[c].exists
          THEN /\ customers' = [customers EXCEPT ![c] =
                                  Stored(Put(@.data, "lineId", call[r].who))]
               /\ call' = [call EXCEPT ![r] =
                             [Answer(call[r], 204, "none") EXCEPT
                                 !.writes = @ \cup {Path("customers", c)}]]
          ELSE /\ customers' = customers
               /\ call' = [call EXCEPT ![r] = Answer(call[r], 500, "Internal Server Error")]
    /\ UNCHANGED <<devices, linking, started, clinicians, subdocs, identities>>

\* ------------------------------------------------------ GET /api/v1/equipment
\* models/equipment.py Device: serialNumber and model are required.
EquipmentValid(dev) == "serialNumber" \in DOMAIN dev /\ "model" \in DOMAIN dev

\* An HTTPException raised inside the try block of the equipment and
\* reports handlers: `except Exception` catches it and the client gets the
\* generic 500 (equipment.py lines 44-49, reports.py lines 61-66, 100-105).
Surfaced(q, st, detail, generic) == [Answer(q, 500, generic) EXCEPT !.raised = st]

EquipmentError == "An error occurred while fetching equipment data."
ReportError(op) == IF op = "latest" THEN "An error occurred while fetching the latest report."
                   ELSE "An error occurred while fetching the report."
NoProfileDetail == "No linked customer profile found for this LINE account."

\* equipment.py lines 25-35: the customer record with the caller's lineId.
EqLookup(r) ==
    /\ call[r].op = "equipment" /\ call[r].pc = "run"
    /\ LET docs == ByLineId(call[r].who)
           q == [call[r] EXCEPT !.reads = @ \cup {Path("customers", "lineId")}]
       IN IF docs = {}
          THEN call' = [call EXCEPT ![r] = Surfaced(q, 404, NoProfileDetail, EquipmentError)]
          ELSE \E c \in docs :
                 call' = [call EXCEPT ![r] = [q EXCEPT !.ref = Ref("customers", c),
                                                       !.pc = "fetch"]]
    /\ UNCHANGED <<customers, devices, linking, started, clinicians, subdocs, identities>>

\* equipment.py lines 38-43: stream and validate the devices of the record.
EqDevices(r) ==
    /\ call[r].op = "equipment" /\ call[r].pc = "fetch"
    /\ LET mine == {i \in DOMAIN devices : devices[i].parent = call[r].ref}
           q == [call[r] EXCEPT !.reads = @ \cup {Path("devices", call[r].ref.id)}]
       IN call' = [call EXCEPT ![r] =
                     IF \A i \in mine : EquipmentValid(devices[i])
                     THEN [Answer(q, 200, "none") EXCEPT !.seen = mine]
                     ELSE Answer(q, 500, EquipmentError)]
    /\ UNCHANGED <<customers, devices, linking, started, clinicians, subdocs, identities>>

\* equipment.py lines 44-49: a store call raises.
EqFail(r) ==
    /\ call[r].op = "equipment" /\ call[r].pc \in {"run", "fetch"}
    /\ call' = [call EXCEPT ![r] = Answer(call[r], 500, EquipmentError)]
    /\ UNCHANGED <<customers, devices, linking, started, clinicians, subdocs, identities>>

\* -------------------------------------------------------- GET /api/v1/reports
\* A document of customers/<c>/reports: rawData holds the usage hours.
RawReport(c, d, h) == Report("reports", c, Iso(d), "rawData" :> h)

RawReportsOf(c) == {x \in subdocs : x.coll = "reports" /\ x.parent = c}

\* ReportDetailResponse: the raw data and the analysis of the usage
\* (report_analyzer.py lines 25-38).
ReportDetail(raw) == ("rawData" :> raw) @@ ("usage" :> IF raw >= 4 THEN "normal" ELSE "low")

\* reports.py lines 17-27: get_customer_id_from_line_id, called inside the
\* try block of both handlers.
RepLookup(r) ==
    /\ call[r].op \in {"reportByDate", "latest"} /\ call[r].pc = "run"
    /\ LET docs == ByLineId(call[r].who)
           q == [call[r] EXCEPT !.reads = @ \cup {Path("customers", "lineId")}]
       IN IF docs = {}
          THEN call' = [call EXCEPT ![r] =
                          Surfaced(q, 404, NoProfileDetail, ReportError(call[r].op))]
          ELSE \E c \in docs :
                 call' = [call EXCEPT ![r] = [q EXCEPT !.ref = Ref("customers", c),
                                                       !.pc = "fetch"]]
    /\ UNCHANGED <<customers, devices, linking, started, clinicians, subdocs, identities>>

\* reports.py lines 81-99: the report document of the date.
RepGet(r) ==
    /\ call[r].op = "reportByDate" /\ call[r].pc = "fetch"
    /\ LET docs == {x \in RawReportsOf(call[r].ref.id) : x.id = call[r].target}
           q == [call[r] EXCEPT !.reads = @ \cup {Path("reports", call[r].ref.id)}]
       IN call' = [call EXCEPT ![r] =
            IF docs = {}
            THEN Surfaced(q, 404, "Report for date not found.", ReportError(call[r].op))
            ELSE [Answer(q, 200, "none") EXCEPT
                    !.body = ReportDetail((CHOOSE x \in docs : TRUE).data["rawData"])]]
    /\ UNCHANGED <<customers, devices, linking, started, clinicians, subdocs, identities>>

\* reports.py lines 40-60: the report with the greatest document id (of the
\* two ids there are, Iso(1) is the smaller).
RepLatest(r) ==
    /\ call[r].op = "latest" /\ call[r].pc = "fetch"
    /\ LET docs == RawReportsOf(call[r].ref.id)
           q == [call[r] EXCEPT !.reads = @ \cup {Path("reports", call[r].ref.id)}]
       IN call' = [call EXCEPT ![r] =
            IF docs = {}
            THEN Surfaced(q, 404, "No reports found for this user.", ReportError(call[r].op))
            ELSE LET top == CHOOSE x \in docs :
                               \A y \in docs : y.id = x.id \/ y.id = Iso(1)
                 IN [Answer(q, 200, "none") EXCEPT !.body = ReportDetail(top.data["rawData"])]]
    /\ UNCHANGED <<customers, devices, linking, started, clinicians, subdocs, identities>>

\* reports.py lines 61-66 and 100-105: a store call raises.
RepFail(r) ==
    /\ call[r].op \in {"reportByDate", "latest"} /\ call[r].pc \in {"run", "fetch"}
    /\ call' = [call EXCEPT ![r] = Answer(call[r], 500, ReportError(call[r].op))]
    /\ UNCHANGED <<customers, devices, linking, started, clinicians, subdocs, identities>>

\* ----------------------------------------------------------------- LineSpec
LineOps == {"linkAccount", "equipment", "reportByDate", "latest"}

\* The devices collection group before the requests: no device, the device
\* s1 under the provisioned record c0, the same with the record link-device
\* added under customers/u2, or a device of a root-level collection.
DeviceSetups ==
    { <<>>,
      <<Device(Ref("customers", "c0"), "s1", "unlink", Absent, Absent)>>,
      <<Device(Ref("customers", "c0"), "s1", "active", Absent, "u2"),
        NewDevice("u2", "s1", Device(Ref("customers", "c0"), "s1", "unlink", Absent, Absent))>>,
      <<Device(NoRef, "s1", "unlink", "pt1", Absent)>> }

\* The provisioned record c0 without lineId, with an empty one, or linked.
ProvisionedDocs ==
    { PreDoc, Put(PreDoc, "lineId", Null), Put(PreDoc, "lineId", "u1"),
      Put(PreDoc, "lineId", "u2") }

\* u2 has registered a profile of their own, u1 has not; the provisioned
\* record has a report for the first date only.
LineInit ==
    /\ \E d0 \in ProvisionedDocs :
          customers = [i \in CustIds |->
                         IF i = "c0" THEN Stored(d0)
                         ELSE IF i = "u2" THEN Stored(LineProfileDoc(i)) ELSE NoDoc]
    /\ \E ds \in DeviceSetups : devices = ds
    /\ subdocs = {RawReport("c0", 1, 7)}
    /\ clinicians = [c \in Uids |-> NoDoc]
    /\ identities = {}
    /\ call = [r \in Slots |-> NoCall]
    /\ patient_list = [i \in PatientIds |-> NoDoc]
    /\ req = [r \in Slots |-> Idle]
    /\ started = 0
    /\ links = {}

LineNext ==
    \/ \E r \in Slots, S \in Serials : \E ans \in Answers(Owner[r]) :
          LineRequest(r, "linkAccount", S, ans)
    \/ \E r \in Slots : \E ans \in Answers(Owner[r]) :
          LineRequest(r, "equipment", "none", ans)
    \/ \E r \in Slots, d \in Dates : \E ans \in Answers(Owner[r]) :
          LineRequest(r, "reportByDate", Iso(d), ans)
    \/ \E r \in Slots : \E ans \in Answers(Owner[r]) :
          LineRequest(r, "latest", "none", ans)
    \/ \E r \in Slots : LaQuery(r)
    \/ \E r \in Slots : LaGet(r)
    \/ \E r \in Slots : LaUpdate(r)
    \/ \E r \in Slots : EqLookup(r)
    \/ \E r \in Slots : EqDevices(r)
    \/ \E r \in Slots : EqFail(r)
    \/ \E r \in Slots : RepLookup(r)
    \/ \E r \in Slots : RepGet(r)
    \/ \E r \in Slots : RepLatest(r)
    \/ \E r \in Slots : RepFail(r)

LineSpec == LineInit /\ [][LineNext]_vars

\* ----------------------------------------------------------------- C15
LineCall(r) == call[r].op \in LineOps
\* The provider accepted the token of r for this channel and named a subject.
Accepted(r) ==
    /\ call[r].idp.http = "ok"
    /\ call[r].idp.client_id = "channel"
    /\ call[r].idp.sub \notin {"absent", ""}

\* C15: a handler behind the LINE verification runs with a subject id only
\* when the provider accepted the token, the client_id of its answer is the
\* configured channel id and the answer has a non-empty sub, and then the
\* subject is that sub; in every other case the request ends with an error
\* before the handler body: no subject id, no store read, no store write.
C15_VerifiedSubjectOnly ==
    \A r \in Slots :
        LineCall(r) =>
            /\ Accepted(r) => call[r].who = call[r].idp.sub
            /\ ~Accepted(r) =>
                  /\ Answered(r)
                  /\ call[r].status \in {400, 401, 500}
                  /\ call[r].who = "none"
                  /\ call[r].reads = {} /\ call[r].writes = {}

\* A token the provider accepted for another channel: 401, no subject.
C15_Witness ==
    \E r \in Slots :
        /\ LineCall(r) /\ Answered(r)
        /\ call[r].idp.http = "ok" /\ call[r].idp.client_id = "other"
        /\ call[r].idp.sub \in Uids
        /\ call[r].status = 401 /\ call[r].who = "none" /\ call[r].reads = {}

\* ----------------------------------------------------------------- C16
LinkAccountCall(r) == call[r].op = "linkAccount"
\* The parent record r read carries the lineId of somebody else.
ReadForeignLineId(r) ==
    /\ call[r].snap.exists
    /\ Has(call[r].snap.data, "lineId")
    /\ call[r].snap.data["lineId"] \notin {"null", "", call[r].who}

\* C16: link-account for a device whose parent customer record has a lineId
\* different from the caller's returns 409, writes nothing, and the record
\* is as it was read.
C16_LinkAccountConflict ==
    \A r \in Slots :
        (LinkAccountCall(r) /\ ReadForeignLineId(r)) =>
            /\ Answered(r)
            /\ call[r].status = 409
            /\ call[r].writes = {}
            /\ customers[call[r].ref.id] = call[r].snap

\* A link-account was refused with 409 for a record linked to the other user.
C16_Witness ==
    \E r \in Slots :
        /\ LinkAccountCall(r) /\ Answered(r) /\ call[r].status = 409
        /\ ReadForeignLineId(r)
        /\ customers[call[r].ref.id] = call[r].snap

\* ----------------------------------------------------------------- C17
\* The lineId a customer document holds ("null" without the field).
StoredLineId(doc) == IF "lineId" \in DOMAIN doc.data THEN doc.data["lineId"] ELSE "null"

\* C17: the lineId of a customer record changes only by the update of a
\* link-account request that read the record without lineId, the new value
\* is the caller's LINE id, and the record had no lineId when that request
\* arrived (no request that arrives after the lineId was set changes it); a
\* call by the LINE id the record carries returns 204 without writing.
C17_LineIdWrittenOnce ==
    /\ [][\A c \in DOMAIN customers :
             StoredLineId(customers'[c]) # StoredLineId(customers[c]) =>
                \E r \in Slots :
                   /\ LinkAccountCall(r)
                   /\ call[r].writes = {} /\ call'[r].writes # {}
                   /\ call[r].ref = [coll |-> "customers", id |-> c]
                   /\ StoredLineId(call[r].snap) \in {"null", ""}
                   /\ c \notin call[r].seen
                   /\ StoredLineId(customers'[c]) = call[r].who
                   /\ call'[r].status = 204]_vars
    /\ [](\A r \in Slots :
             ( /\ LinkAccountCall(r) /\ Answered(r) /\ call[r].snap.exists
               /\ StoredLineId(call[r].snap) = call[r].who ) =>
                  call[r].status = 204 /\ call[r].writes = {})

\* One caller's link-account set the lineId of a record; a request of the
\* other caller that arrived afterwards met it, and the lineId is unchanged.
C17_Witness ==
    \E r1, r2 \in Slots :
        /\ LinkAccountCall(r1) /\ Answered(r1) /\ call[r1].status = 204
        /\ call[r1].writes # {}
        /\ StoredLineId(customers[call[r1].ref.id]) = call[r1].who
        /\ LinkAccountCall(r2) /\ Answered(r2) /\ call[r2].ref = call[r1].ref
        /\ call[r1].ref.id \in call[r2].seen
        /\ StoredLineId(call[r2].snap) = call[r1].who
        /\ call[r2].writes = {}

\* ----------------------------------------------------------------- C18
\* C18: when an equipment or reports handler detects a not-found condition
\* (no customer record for the caller's LINE id, no report document for the
\* date, no report at all), the client gets 404 with the not-found detail.
C18_NotFoundIs404 ==
    \A r \in Slots :
        ( /\ call[r].op \in {"equipment", "reportByDate", "latest"}
          /\ Answered(r) /\ call[r].raised = 404 ) =>
            /\ call[r].status = 404
            /\ call[r].detail \in {"No linked customer profile found for this LINE account.",
                                   "Report for date not found.",
                                   "No reports found for this user."}


\* ----------------------------------------------------------------- C27
\* C27: of the link-account requests by callers with different LINE ids that
\* resolved the same device's parent record, at most one is answered 204, and
\* the record holds the LINE id of every caller that was answered 204.
C27_OneLinkAccountWins ==
    /\ \A r1, r2 \in Slots :
          ( /\ r1 # r2
            /\ LinkAccountCall(r1) /\ LinkAccountCall(r2)
            /\ Answered(r1) /\ Answered(r2)
            /\ call[r1].ref = call[r2].ref
            /\ call[r1].who # call[r2].who ) =>
               ~(call[r1].status = 204 /\ call[r2].status = 204)
    /\ \A r \in Slots :
          (LinkAccountCall(r) /\ Answered(r) /\ call[r].status = 204) =>
              StoredLineId(customers[call[r].ref.id]) = call[r].who

\* ======================================================================
\* Concurrent POST /customers/me requests of one caller
\* ======================================================================
\* Two client sessions that may be signed in as the same user (two devices,
\* or a retry sent while the first request is in flight): every request
\* carries the bearer token of one of the users.
SameCallerInit ==
    /\ \E f \in [Uids -> BOOLEAN] :
          customers = [i \in CustIds |->
                         IF i = "c0" THEN Stored(PreDoc)
                         ELSE IF f[i] THEN Stored(LineProfileDoc(i)) ELSE NoDoc]
    /\ patient_list = [i \in PatientIds |-> NoDoc]
    /\ devices = <<>>
    /\ req = [r \in Slots |-> Idle]
    /\ started = 0
    /\ links = {}
    /\ NoTraffic

SameCallerNext ==
    \/ \E r \in Slots, U \in Uids : \E p \in Payloads(U) : CreateStart(r, U, p)
    \/ \E r \in Slots : CreateSet(r)
    \/ \E r \in Slots : CreateSetFail(r)
    \/ \E r \in Slots : CreateRespond(r)

SameCallerSpec == SameCallerInit /\ [][SameCallerNext]_vars

\* ----------------------------------------------------------------- C28
\* C28: of two POST /customers/me requests of one caller U that both met no
\* customers/U, at most one writes customers/U and at most one returns 201;
\* the other one, once answered without a store failure, got 409 and wrote
\* nothing; no step of a creation changes a customers/U that exists.
C28_SingleCreation ==
    [][ /\ \A r1, r2 \in Slots :
              ( /\ r1 # r2
                /\ req'[r1].op = "create" /\ req'[r2].op = "create"
                /\ req'[r1].caller = req'[r2].caller
                /\ ~req'[r1].before.exists /\ ~req'[r2].before.exists ) =>
                 /\ ~("commit" \in req'[r1].writes /\ "commit" \in req'[r2].writes)
                 /\ ~(req'[r1].status = 201 /\ req'[r2].status = 201)
        /\ \A U \in Uids : customers[U].exists => customers'[U] = customers[U] ]_vars

\* ======================================================================
\* Sub-resources under customers/X and the deletion of customers/X
\* ======================================================================
\* Ids the store generates for add() and document(): one per document of
\* the subcollections so far.
AutoIdOf(n) == IF n = 0 THEN "n1" ELSE IF n = 1 THEN "n2" ELSE IF n = 2 THEN "n3" ELSE "n4"

\* mask_data / tubing_data after model_dump(by_alias=True) and the addedDate
\* stamp (customers.py lines 168-169, 211-212).
MaskData == ("mask_name" :> "AirFit") @@ ("size" :> "M") @@ ("addedDate" :> "now")
TubingData == ("tubing_name" :> "SlimLine") @@ ("addedDate" :> "now")

\* The device document add_a_device stores (lines 122-126): model_dump
\* (by_alias=True) writes serial_number, so the document has no serialNumber
\* field; status is the schema default.
AddedDevice(U) == Device(Ref("customers", U), Absent, "Active", Absent, Absent)

\* The device document add_device_to_customer stores (main.py lines 135-142)
\* for a payload with a serial number no link request asks for.
MainDeviceDict(P) == Device(Ref("customers", P), "s2", "Active", Absent, Absent)

\* POST /customers/me/devices, /me/masks or /me/airTubing arrives with a
\* verified credential (lines 109-121, 155-167, 198-210).
SubRequest(r, op) ==
    /\ CallFree(r)
    /\ started' = started + 1
    /\ call' = [call EXCEPT ![r] = Authenticate(NewCall(op, Owner[r], "valid", Owner[r]))]
    /\ UNCHANGED <<customers, devices, linking, clinicians, subdocs, identities>>

\* customers.py lines 120-133: add() under customers/U/devices and read back.
AddADevice(r) ==
    /\ call[r].op = "addDevice" /\ call[r].pc = "run"
    /\ devices' = Append(devices, AddedDevice(call[r].who))
    /\ call' = [call EXCEPT ![r] =
                  [Answer(call[r], 201, "none") EXCEPT
                      !.writes = @ \cup {Path("devices", call[r].who)},
                      !.reads = @ \cup {Path("devices", call[r].who)}]]
    /\ UNCHANGED <<customers, linking, started, clinicians, subdocs, identities>>

\* customers.py lines 166-177: add() under customers/U/masks and read back.
AddAMask(r) ==
    /\ call[r].op = "addMask" /\ call[r].pc = "run"
    /\ subdocs' = subdocs \cup
                    {Report("masks", call[r].who, AutoIdOf(Cardinality(subdocs)), MaskData)}
    /\ call' = [call EXCEPT ![r] =
                  [Answer(call[r], 201, "none") EXCEPT
                      !.writes = @ \cup {Path("masks", call[r].who)},
                      !.reads = @ \cup {Path("masks", call[r].who)},
                      !.body = Put(MaskData, "maskId", AutoIdOf(Cardinality(subdocs)))]]
    /\ UNCHANGED <<customers, devices, linking, started, clinicians, identities>>

\* customers.py lines 209-220: add() under customers/U/airTubing and read back.
AddAirTubing(r) ==
    /\ call[r].op = "addTubing" /\ call[r].pc = "run"
    /\ subdocs' = subdocs \cup
                    {Report("airTubing", call[r].who, AutoIdOf(Cardinality(subdocs)), TubingData)}
    /\ call' = [call EXCEPT ![r] =
                  [Answer(call[r], 201, "none") EXCEPT
                      !.writes = @ \cup {Path("airTubing", call[r].who)},
                      !.reads = @ \cup {Path("airTubing", call[r].who)},
                      !.body = Put(TubingData, "tubingId", AutoIdOf(Cardinality(subdocs)))]]
    /\ UNCHANGED <<customers, devices, linking, started, clinicians, identities>>

\* main.py lines 130-133: add_device_to_customer checks the customer exists.
MainAddDeviceCheck(r) ==
    /\ call[r].op = "mainAddDevice" /\ call[r].pc = "run"
    /\ LET doc == customers[call[r].target]
           q == [call[r] EXCEPT !.reads = @ \cup {Path("customers", call[r].target)}]
       IN call' = [call EXCEPT ![r] =
                     IF ~doc.exists THEN Answer(q, 404, "Customer not found")
                     ELSE [q EXCEPT !.pc = "set"]]
    /\ UNCHANGED <<customers, devices, linking, started, clinicians, subdocs, identities>>

\* main.py lines 139-144: set() of a new document under customers/P/devices.
MainAddDeviceSet(r) ==
    /\ call[r].op = "mainAddDevice" /\ call[r].pc = "set"
    /\ devices' = Append(devices, MainDeviceDict(call[r].target))
    /\ call' = [call EXCEPT ![r] =
                  [Answer(call[r], 201, "none") EXCEPT
                      !.writes = @ \cup {Path("devices", call[r].target)},
                      !.reads = @ \cup {Path("devices", call[r].target)}]]
    /\ UNCHANGED <<customers, linking, started, clinicians, subdocs, identities>>

\* ----------------------------------------------------------------- TreeSpec
\* A user may have a link-device request and a request to another handler
\* in flight at once.  The provisioned record c0 with its device s1 (patientId pt1), u2 with a
\* registered profile, u1 with or without one; no sub-resource document yet.
TreeInit ==
    /\ \E f \in BOOLEAN :
          customers = [i \in CustIds |->
                         IF i = "c0" THEN Stored(PreDoc)
                         ELSE IF i = "u2" \/ f THEN Stored(LineProfileDoc(i)) ELSE NoDoc]
    /\ patient_list = [i \in PatientIds |-> NoDoc]
    /\ devices = <<Device(Ref("customers", "c0"), "s1", "unlink", "pt1", Absent)>>
    /\ req = [r \in Slots |-> Idle]
    /\ started = 0
    /\ links = {}
    /\ NoTraffic

TreeNext ==
    \/ \E r \in Slots : SubRequest(r, "addDevice")
    \/ \E r \in Slots : SubRequest(r, "addMask")
    \/ \E r \in Slots : SubRequest(r, "addTubing")
    \/ \E r \in Slots : AddADevice(r)
    \/ \E r \in Slots : AddAMask(r)
    \/ \E r \in Slots : AddAirTubing(r)
    \/ \E r \in Slots : SubmitRequest(r, 1, 7, "valid")
    \/ \E r \in Slots : SubmitSet(r)
    \/ \E r \in Slots : SubmitRespond(r)
    \/ \E r \in Slots, P \in Targets : MainRequest(r, "mainAddDevice", P, "none")
    \/ \E r \in Slots : MainAddDeviceCheck(r)
    \/ \E r \in Slots : MainAddDeviceSet(r)
    \/ \E r \in Slots, P \in Targets : MainRequest(r, "mainDelete", P, "none")
    \/ \E r \in Slots : MainDeleteCheck(r)
    \/ \E r \in Slots : MainDelete(r)
    \/ \E r \in Slots, S \in Serials : LinkQueryFail(r, Owner[r], S)
    \/ \E r \in Slots, S \in Serials : LinkQuery(r, Owner[r], S)
    \/ \E r \in Slots : LinkGetParent(r)
    \/ \E r \in Slots : LinkCopy(r)
    \/ \E r \in Slots : LinkCopyFail(r)
    \/ \E r \in Slots : LinkReadUser(r)
    \/ \E r \in Slots : LinkCommit(r)
    \/ \E r \in Slots : LinkCommitFail(r)
    \/ \E r \in Slots : LinkFlip(r)
    \/ \E r \in Slots : LinkFlipFail(r)
    \/ \E r \in Slots : LinkAdd(r)
    \/ \E r \in Slots : LinkAddFail(r)
    \/ \E r \in Slots : LinkRespond(r)

TreeSpec == TreeInit /\ [][TreeNext]_vars

\* ----------------------------------------------------------------- C30
\* C30: every document of a subcollection under customers/X (devices,
\* masks, airTubing, dailyReports) has an existing parent document
\* customers/X.
C30_NoOrphanSubdocument ==
    /\ \A i \in DOMAIN devices :
          devices[i].parent.coll = "customers" =>
              customers[devices[i].parent.id].exists
    /\ \A x \in subdocs : customers[x.parent].exists
====
